---- MODULE Spec2Model ----
(***************************************************************************)
(* The context-relevance retrieval engine of the Airtable AI agent:        *)
(* ContextManager (src/src/context_manager.py) and ContextManagerBasic     *)
(* (src/src/context_manager_basic.py), with the persistent chunk store.    *)
(*                                                                         *)
(* Conventions of the model                                                *)
(*  - A text (content, title, query) is a sequence of runs                 *)
(*    [piece |-> p, n |-> k]: the piece p repeated k times.  A piece is a  *)
(*    word or one of the natural break strings of _truncate_content.      *)
(*    The tokenizer (tiktoken, an external library) is modelled as one     *)
(*    token per piece; str.split() as one word per word piece.             *)
(*  - A score is a Python float, modelled bit for bit: see Float below.    *)
(*  - Time is counted in ticks of 30 minutes.                              *)
(***************************************************************************)
EXTENDS Integers, Sequences, FiniteSets, TLC

VARIABLES
    impl,          \* "full" (ContextManager) or "basic" (ContextManagerBasic)
    max_tokens,    \* self.max_tokens
    embedder,      \* self.embedder: "None" until initialize() loads the model
    chunks,        \* self.chunks: the in-memory list of DocumentChunk objects
    chunk_index,   \* self.chunk_index: id -> position in chunks of the object
    db,            \* the rows of table chunks of context.db, in rowid order
    stats,         \* self.stats
    now,           \* datetime.now(), in ticks
    session,       \* history: how many managers were built on the store
    queries,       \* history: how many calls of get_relevant_context were made
    failures,      \* history: how many writes to the store have failed
    ingested,      \* history: the files _process_file has processed so far
    lastOp,        \* history: the last operation and its arguments
    result,        \* the outcome of the last operation as its caller sees it
    fn,            \* harness of the pure functions: the call and what it returned
    agent          \* the AirtableAIAgent of main: its components, metrics and tasks

vars == <<impl, max_tokens, embedder, chunks, chunk_index, db, stats, now,
          session, queries, failures, ingested, lastOp, result, fn, agent>>

mgrVars == <<impl, max_tokens, embedder, chunks, chunk_index, db, stats, now,
             session, queries, failures, ingested, lastOp, result>>

\* None, for a field that otherwise holds a string
None == "None"

\* last_accessed = None: no time stamp
NoTime == -1

\* embedding = None: no vector
NoEmbedding == <<>>

Max(a, b) == IF a >= b THEN a ELSE b

(***************************************************************************)
(* Texts                                                                   *)
(***************************************************************************)

\* natural_breaks of _truncate_content, in the order the loop tries them
NaturalBreaks == <<"\n\n", "\n### ", "\n## ", ". ", ".\n">>

IsBreak(p) == \E i \in DOMAIN NaturalBreaks : NaturalBreaks[i] = p

Run(p, k) == [piece |-> p, n |-> k]

\* len(s): a break piece is its own characters, a word carries one separator
PieceChars(p) == IF IsBreak(p) THEN Len(p) ELSE Len(p) + 1

RECURSIVE CharLen(_)
CharLen(text) ==
    IF text = <<>> THEN 0
    ELSE Head(text).n * PieceChars(Head(text).piece) + CharLen(Tail(text))

\* len(self.tokenizer.encode(text)): one token per piece
RECURSIVE EncodeLen(_)
EncodeLen(text) ==
    IF text = <<>> THEN 0 ELSE Head(text).n + EncodeLen(Tail(text))

\* self.tokenizer.decode(tokens[:k]) for k >= 0
RECURSIVE DecodePrefix(_, _)
DecodePrefix(text, k) ==
    IF text = <<>> \/ k <= 0 THEN <<>>
    ELSE IF Head(text).n <= k
         THEN <<Head(text)>> \o DecodePrefix(Tail(text), k - Head(text).n)
         ELSE <<Run(Head(text).piece, k)>>

\* words a piece contributes to text.split(): the heading breaks leave their
\* '#' marks as a word, the other breaks are white space or stick to a word
SplitWords(p) ==
    IF p \in {"\n### ", "\n## "} THEN 1 ELSE IF IsBreak(p) THEN 0 ELSE 1

RECURSIVE SplitLen(_)
SplitLen(text) ==
    IF text = <<>> THEN 0
    ELSE Head(text).n * SplitWords(Head(text).piece) + SplitLen(Tail(text))

\* int(self._estimate_tokens(chunk_content)), i.e. int(len(text.split()) * 1.3)
_estimate_tokens(text) == (13 * SplitLen(text)) \div 10

StopWords ==
    {"a", "an", "and", "are", "as", "at", "be", "by", "for", "from", "has", "he",
     "in", "is", "it", "its", "of", "on", "that", "the", "to", "was", "were",
     "will", "with", "can", "how", "what", "when", "where", "why", "i", "you",
     "me", "my", "your", "this"}

\* word.strip('.,!?()[]{}";:').lower() on the words the model's texts use
Lower(w) ==
    CASE w = "Webhook" -> "webhook"
      [] w = "Formula" -> "formula"
      [] w = "api:" -> "api"
      [] w = "formulas:" -> "formulas"
      [] OTHER -> w

\* the word a piece leaves in text.split()
WordOf(p) ==
    CASE p = "\n### " -> "###"
      [] p = "\n## " -> "##"
      [] OTHER -> p

_extract_keywords(text) ==
    {Lower(WordOf(text[i].piece)) : i \in {j \in DOMAIN text :
        /\ SplitWords(text[j].piece) = 1
        /\ text[j].n > 0
        /\ Len(Lower(WordOf(text[j].piece))) > 2
        /\ Lower(WordOf(text[j].piece)) \notin StopWords}}

(***************************************************************************)
(* _truncate_content                                                       *)
(***************************************************************************)

\* "\n\n[Content truncated...]"
TruncationMarker == <<Run("\n\n", 1), Run("[Content", 1), Run("truncated...]", 1)>>

HasPiece(text, p) == \E i \in DOMAIN text : text[i].piece = p /\ text[i].n > 0

LastRunOf(text, p) ==
    CHOOSE i \in DOMAIN text :
        /\ text[i].piece = p /\ text[i].n > 0
        /\ \A j \in DOMAIN text : (text[j].piece = p /\ text[j].n > 0) => j <= i

\* truncated_content.rfind(break_point)
RFind(text, p) ==
    IF ~HasPiece(text, p) THEN -1
    ELSE LET i == LastRunOf(text, p)
         IN  CharLen(SubSeq(text, 1, i - 1)) + (text[i].n - 1) * PieceChars(p)

\* truncated_content[:last_break + len(break_point)]
CutAfterLast(text, p) == SubSeq(text, 1, LastRunOf(text, p))

\* the loop over natural_breaks: the first break kind, in list order, whose
\* last occurrence lies beyond 80% of the text decides the cut
RECURSIVE CutAtNaturalBreak(_, _)
CutAtNaturalBreak(text, i) ==
    IF i > Len(NaturalBreaks) THEN text
    ELSE LET bp == NaturalBreaks[i]
         IN  IF HasPiece(text, bp) /\ 10 * RFind(text, bp) > 8 * CharLen(text)
             THEN CutAfterLast(text, bp)
             ELSE CutAtNaturalBreak(text, i + 1)

_truncate_content(content, limit) ==
    IF EncodeLen(content) <= limit THEN content
    ELSE CutAtNaturalBreak(DecodePrefix(content, limit), 1) \o TruncationMarker

(***************************************************************************)
(* DocumentChunk and the scores                                            *)
(***************************************************************************)

\* number of score units in 1.0
ScoreScale == 300

Tenths(k) == (k * ScoreScale) \div 10

\* A score is a Python float (IEEE 754 binary64).  The model writes a float
\* as [n, e]: the number n / ScoreScale + e / (ScoreScale * 2^ErrBits), the
\* decimal n / ScoreScale it is near and its distance e from it.  Every float
\* of magnitude 2^-9 .. 8 has this form with a whole e, and no float has two.
ErrBits == 61

Float(n, e) == [n |-> n, e |-> e]

Zero == Float(0, 0)

FNeg(x) == Float(-x.n, -x.e)

\* x < y, x > y, x >= y on floats
FLess(x, y) == x.n < y.n \/ (x.n = y.n /\ x.e < y.e)

FGreater(x, y) == FLess(y, x)

FAtLeast(x, y) == ~FLess(x, y)

\* the tuple t of powers of 2, with the next one
Doubled(t) == Append(t, 2 * t[Len(t)])

DoubledMod75(t) == Append(t, (2 * t[Len(t)]) % 75)

\* <<2^0, 2^1, ..., 2^k>>
RECURSIVE PowersOf2(_)
PowersOf2(k) == IF k = 0 THEN <<1>> ELSE Doubled(PowersOf2(k - 1))

Pow2Table == PowersOf2(30)

Pow2(k) == Pow2Table[k + 1]

\* <<2^0 % 75, 2^1 % 75, ..., 2^k % 75>>
RECURSIVE PowersOf2Mod75(_)
PowersOf2Mod75(k) ==
    IF k = 0 THEN <<1>> ELSE DoubledMod75(PowersOf2Mod75(k - 1))

Pow2Mod75Table == PowersOf2Mod75(ErrBits)

\* whether the positive number n / ScoreScale + e / (ScoreScale * 2^ErrBits)
\* is at least 2^b, for b in -9 .. 3
AtLeastPow2(n, e, b) ==
    \/ n * Pow2(9) > ScoreScale * Pow2(b + 9)
    \/ (n * Pow2(9) = ScoreScale * Pow2(b + 9) /\ e >= 0)

\* the binary exponent of that number, looked for from b downwards
RECURSIVE BinadeFrom(_, _, _)
BinadeFrom(n, e, b) ==
    IF b = -9 \/ AtLeastPow2(n, e, b) THEN b ELSE BinadeFrom(n, e, b - 1)

Binade(n, e) == BinadeFrom(n, e, 2)

\* the spacing of the floats of exponent b (2^(b-52)), in units of e, is
\* ScoreScale * 2^j for j = b + ErrBits - 52; the remainder of
\* n * 2^ErrBits + e modulo that spacing (ScoreScale = 4 * 75)
SpacingRemainder(n, e, j) ==
    (Pow2(j + 2) * (((n % 75) * Pow2Mod75Table[ErrBits - j - 1]) % 75) + e)
        % (ScoreScale * Pow2(j))

\* round to nearest, ties to even, given the spacing and the remainder r
RoundWith(n, e, sticky, j, spacing, r) ==
    IF 2 * r < spacing THEN Float(n, e - r)
    ELSE IF 2 * r > spacing \/ sticky THEN Float(n, e - r + spacing)
    ELSE IF SpacingRemainder(n, e, j + 1) = r THEN Float(n, e - r)
    ELSE Float(n, e - r + spacing)

RoundInBinade(n, e, sticky, j) ==
    RoundWith(n, e, sticky, j, ScoreScale * Pow2(j), SpacingRemainder(n, e, j))

\* round to nearest, ties to even, of the positive number n / ScoreScale +
\* (e + f) / (ScoreScale * 2^ErrBits), where 0 < f < 1 if sticky, else f = 0
RoundPositive(n, e, sticky) ==
    RoundInBinade(n, e, sticky, Binade(n, e) + ErrBits - 52)

\* the float nearest to n / ScoreScale + e / (ScoreScale * 2^ErrBits); with
\* n = 0 the number is a difference of two close floats, itself a float
Round(n, e) ==
    IF n = 0 THEN Float(0, e)
    ELSE IF n > 0 THEN RoundPositive(n, e, FALSE)
    ELSE FNeg(RoundPositive(-n, -e, FALSE))

\* <<Round(lo, 0), Round(lo + 1, 0), ..., Round(hi, 0)>>
RECURSIVE NearestFloats(_, _)
NearestFloats(lo, hi) ==
    IF lo = hi THEN <<Round(lo, 0)>>
    ELSE NearestFloats(lo, (lo + hi) \div 2)
             \o NearestFloats((lo + hi) \div 2 + 1, hi)

FloatTable == NearestFloats(0, 2 * ScoreScale)

\* the float a decimal literal or a quotient of two ints evaluates to: the
\* float nearest to n score units
FloatOf(n) ==
    IF n >= 0 /\ n <= 2 * ScoreScale THEN FloatTable[n + 1]
    ELSE IF n < 0 /\ -n <= 2 * ScoreScale THEN FNeg(FloatTable[1 - n])
    ELSE Round(n, 0)

\* x + y and x - y
FAdd(x, y) == Round(x.n + y.n, x.e + y.e)

FSub(x, y) == Round(x.n - y.n, x.e - y.e)

\* x * 0.8 for a float x > 0 near a multiple of 5 score units (every score
\* the loop computes is one): the float 0.8 is (4/5) * (1 + 2^-54), so the
\* product is m = 4n/5 score units and 2^(ErrBits-54) * m + (4e/5) * (1 + 2^-54)
TimesFourFifthsPositive(x) ==
    LET m == (4 * x.n) \div 5
        q == (4 * x.e) \div 5
        whole == (4 * x.e) % 5 = 0
        carry == Pow2(ErrBits - 54) * m
    IN  IF x.e = 0 THEN RoundPositive(m, carry, FALSE)
        ELSE IF whole /\ x.e < 0 THEN RoundPositive(m, carry + q - 1, TRUE)
        ELSE RoundPositive(m, carry + q, TRUE)

TimesFourFifths(x) ==
    IF x.n = 0 THEN x
    ELSE IF x.n > 0 THEN TimesFourFifthsPositive(x)
    ELSE FNeg(TimesFourFifthsPositive(FNeg(x)))

\* DocumentChunk(id, content, title, category, tokens, embedding): the two
\* defaults are relevance_score = 0.0 and last_accessed = None
DocumentChunk(id, content, title, category, tokens, embedding) ==
    [id |-> id, content |-> content, title |-> title, category |-> category,
     tokens |-> tokens, embedding |-> embedding, relevance_score |-> Zero,
     last_accessed |-> NoTime]

\* hashlib.sha256((chunk_content + title + category).encode()).hexdigest()[:16]:
\* the digest stands for the concatenated string it is computed from
chunk_id(content, title, category) == content \o title \o <<Run(category, 1)>>

\* f"{chunk.id}_truncated"
TruncatedId(id) == id \o <<Run("_truncated", 1)>>

IsTruncatedId(id) == \E i \in DOMAIN id : id[i].piece = "_truncated"

\* chunk.id.replace('_truncated', '')
StripTruncated(id) == SelectSeq(id, LAMBDA r : r.piece # "_truncated")

\* np.dot(query_embedding, chunk.embedding): the float nearest to the sum of
\* the products, which the model's vectors make a whole number of score units
Dot(u, v) == FloatOf(u[1] * v[1] + u[2] * v[2])

\* timedelta(hours=1) and timedelta(days=1), in ticks
HourTicks == 2
DayTicks == 48

\* _get_recency_boost with the hour boundary included in the last hour
\* (time_diff <= timedelta(hours=1)): the variant C7's property must reject
_get_recency_boost_HourIncluded(chunk, clock) ==
    IF chunk.last_accessed = NoTime THEN Zero
    ELSE LET time_diff == clock - chunk.last_accessed
         IN  IF time_diff <= HourTicks THEN FloatOf(Tenths(2))
             ELSE IF time_diff < DayTicks THEN FloatOf(Tenths(1))
             ELSE Zero

_get_recency_boost(chunk, clock) ==
    IF chunk.last_accessed = NoTime THEN Zero
    ELSE LET time_diff == clock - chunk.last_accessed
         IN  IF time_diff < HourTicks THEN FloatOf(Tenths(2))
             ELSE IF time_diff < DayTicks THEN FloatOf(Tenths(1))
             ELSE Zero

\* An analysis is [form, intent].  form "None" is no analysis; "dict" is a
\* dict whose 'intent' is a str; "dict_enum" is QueryAnalysis.__dict__, whose
\* 'intent' is a QueryIntent member (agent_basic.py); "QueryAnalysis" is the
\* dataclass object itself (agent.py).
Analysis(form, intent) == [form |-> form, intent |-> intent]

NoAnalysis == Analysis(None, "")

\* 'formula' in intent.lower(), etc., on the intents the model uses
IntentHas(intent, word) ==
    CASE word = "formula" -> intent \in {"formula_help"}
      [] word = "app" -> intent \in {"app_guidance"}
      [] word = "extension" -> FALSE
      [] word = "mcp" -> intent \in {"mcp_tools"}
      [] word = "tool" -> intent \in {"mcp_tools"}
      [] OTHER -> FALSE

\* whether _get_category_boost raises: ContextManager calls analysis.get and
\* intent.lower(), which a QueryAnalysis object and a QueryIntent member lack
CategoryBoostRaises(analysis, variant) ==
    /\ variant = "full"
    /\ analysis.form \in {"QueryAnalysis", "dict_enum"}

category_priorities(category, intent, variant) ==
    LET adjusted == variant = "full"
        formula == adjusted /\ IntentHas(intent, "formula")
        app == adjusted /\ ~formula
               /\ (IntentHas(intent, "app") \/ IntentHas(intent, "extension"))
        mcp == adjusted /\ ~formula /\ ~app
               /\ (IntentHas(intent, "mcp") \/ IntentHas(intent, "tool"))
    IN  CASE category = "api" -> FloatOf(Tenths(3))
          [] category = "javascript" -> FloatOf(Tenths(2))
          [] category = "mcp" -> FloatOf(IF mcp THEN Tenths(5) ELSE Tenths(4))
          [] category = "formulas" -> FloatOf(IF formula THEN Tenths(4) ELSE Tenths(1))
          [] category = "apps" -> FloatOf(IF app THEN Tenths(4) ELSE Tenths(1))
          [] OTHER -> Zero

_get_category_boost(category, analysis, variant) ==
    IF analysis.form = None THEN Zero
    ELSE category_priorities(category, analysis.intent, variant)

\* len(matches) / max(len(query_keywords), 1): the float nearest to the
\* quotient, a whole number of score units for up to 6 query keywords
KeywordScore(chunk, query_keywords) ==
    LET chunk_keywords == _extract_keywords(chunk.content \o chunk.title)
        matches == query_keywords \cap chunk_keywords
    IN  FloatOf((Cardinality(matches) * ScoreScale)
                    \div Max(Cardinality(query_keywords), 1))

\* keyword_score + category_boost + recency_boost
_calculate_keyword_score(chunk, query_keywords, analysis, clock) ==
    FAdd(FAdd(KeywordScore(chunk, query_keywords),
              _get_category_boost(chunk.category, analysis, "basic")),
         _get_recency_boost(chunk, clock))

\* relevance_score = semantic_score + category_boost + recency_boost
SemanticScore(chunk, query_embedding, analysis, clock) ==
    FAdd(FAdd(Dot(query_embedding, chunk.embedding),
              _get_category_boost(chunk.category, analysis, "full")),
         _get_recency_boost(chunk, clock))

(***************************************************************************)
(* _optimize_for_tokens                                                    *)
(***************************************************************************)

\* int(self.max_tokens * 0.7) is computed in binary floating point: for these
\* multiples of 10 (all there are up to 4000) the product falls just below
\* the integer 7n/10 and int() yields one less
FloatShort(m) ==
    /\ m % 10 = 0
    /\ \/ m = 90 \/ m \in 170..180 \/ m \in 330..360 \/ m \in 650..730
       \/ m \in 1290..1460 \/ m \in 2570..2920

AvailableTokens(ceiling) ==
    (7 * ceiling) \div 10 - (IF FloatShort(ceiling) THEN 1 ELSE 0)

\* "Minimum useful chunk size"
MinUsefulTokens == 500

\* the truncated copy keeping the score of the chunk (no penalty): the
\* variant C22's property must reject
Penalized_Not(score) == score

\* chunk.relevance_score * 0.8
Penalized(score) == TimesFourFifths(score)

\* TruncatedChunk keeping the token count of the whole chunk
\* (tokens=chunk.tokens): the variant C1's property must reject
TruncatedChunk_WholeTokens(chunk, remaining_tokens) ==
    [id |-> TruncatedId(chunk.id),
     content |-> _truncate_content(chunk.content, remaining_tokens),
     title |-> chunk.title \o <<Run("(partial)", 1)>>,
     category |-> chunk.category,
     tokens |-> chunk.tokens,
     embedding |-> NoEmbedding,
     relevance_score |-> Penalized(chunk.relevance_score),
     last_accessed |-> NoTime]

TruncatedChunk(chunk, remaining_tokens) ==
    [id |-> TruncatedId(chunk.id),
     content |-> _truncate_content(chunk.content, remaining_tokens),
     title |-> chunk.title \o <<Run("(partial)", 1)>>,
     category |-> chunk.category,
     tokens |-> remaining_tokens,
     embedding |-> NoEmbedding,
     relevance_score |-> Penalized(chunk.relevance_score),
     last_accessed |-> NoTime]

\* AdmitsPartial with the minimum itself admitted (remaining_tokens >= 500):
\* the variant C3's property must reject
AdmitsPartial_AtMinimum(remaining_tokens, variant) ==
    variant = "full" /\ remaining_tokens >= MinUsefulTokens

\* whether the else branch admits a partial chunk
AdmitsPartial(remaining_tokens, variant) ==
    variant = "full" /\ remaining_tokens > MinUsefulTokens

\* the loop of _optimize_for_tokens going on past a chunk that neither fits
\* nor is truncated (continue instead of break): the variant C21's property
\* must reject
RECURSIVE OptimizeFrom_Skipping(_, _, _, _, _)
OptimizeFrom_Skipping(list, i, current_tokens, available_tokens, variant) ==
    IF i > Len(list) THEN <<>>
    ELSE IF current_tokens + list[i].tokens <= available_tokens
         THEN <<list[i]>> \o OptimizeFrom_Skipping(list, i + 1,
                  current_tokens + list[i].tokens, available_tokens, variant)
         ELSE IF AdmitsPartial(available_tokens - current_tokens, variant)
              THEN <<TruncatedChunk(list[i], available_tokens - current_tokens)>>
              ELSE OptimizeFrom_Skipping(list, i + 1, current_tokens,
                       available_tokens, variant)

\* the loop of _optimize_for_tokens from position i on, with current_tokens
RECURSIVE OptimizeFrom(_, _, _, _, _)
OptimizeFrom(list, i, current_tokens, available_tokens, variant) ==
    IF i > Len(list) THEN <<>>
    ELSE IF current_tokens + list[i].tokens <= available_tokens
         THEN <<list[i]>> \o OptimizeFrom(list, i + 1,
                  current_tokens + list[i].tokens, available_tokens, variant)
         ELSE IF AdmitsPartial(available_tokens - current_tokens, variant)
              THEN <<TruncatedChunk(list[i], available_tokens - current_tokens)>>
              ELSE <<>>

_optimize_for_tokens(list, ceiling, variant) ==
    OptimizeFrom(list, 1, 0, AvailableTokens(ceiling), variant)

\* relevant_chunks.sort(key=lambda x: x.relevance_score, reverse=True): a
\* stable sort, so equal scores keep their order
RECURSIVE SortByScore(_)
SortByScore(list) ==
    IF list = <<>> THEN <<>>
    ELSE LET rest == SortByScore(SubSeq(list, 1, Len(list) - 1))
             x == list[Len(list)]
             k == Cardinality({j \in DOMAIN rest :
                      FAtLeast(rest[j].relevance_score, x.relevance_score)})
         IN  SubSeq(rest, 1, k) \o <<x>> \o SubSeq(rest, k + 1, Len(rest))

\* relevant_chunks[:max_chunks] for max_chunks >= 0
Prefix(list, k) == SubSeq(list, 1, IF k < Len(list) THEN k ELSE Len(list))

(***************************************************************************)
(* The documentation files, the embedder and the inputs of the operations  *)
(***************************************************************************)

Unit(content, title) == [content |-> content, title |-> title]

\* the (content, title) units _smart_chunking yields for each documentation
\* file of doc_files that the model ingests, with the file's category
DocFile(name) ==
    CASE name = "api" ->
           [category |-> "api",
            units |-> <<Unit(<<Run("Webhook", 1), Run("setup", 1), Run(". ", 1),
                               Run("text", 397)>>,
                             <<Run("api:", 1), Run("Webhook", 1)>>),
                        Unit(<<Run("records", 1), Run("text", 899)>>,
                             <<Run("api:", 1), Run("records", 1)>>)>>]
      [] name = "formulas" ->
           [category |-> "formulas",
            units |-> <<Unit(<<Run("Formula", 1), Run("text", 599)>>,
                             <<Run("formulas:", 1), Run("Formula", 1)>>)>>]

FileNames == {"api", "formulas"}

\* self.embedder.encode(text): the vector of a text, told by its first word;
\* the components are scaled so that a dot product is a number of score units
EmbedderEncode(text) ==
    LET w == Head(text).piece
    IN  CASE w = "Webhook" -> <<20, 0>>
          [] w = "records" -> <<0, 18>>
          [] w = "Formula" -> <<0, 16>>
          [] w = "webhook" -> <<15, 0>>
          [] w = "the" -> <<0, 15>>
          [] w = "formula" -> <<-15, -15>>
          [] OTHER -> <<0, 0>>

\* the queries the model asks: "webhook notification setup", "the id" (a
\* query without keywords) and "formula records" (a query whose embedding
\* opposes the documents')
WebhookQuery == <<Run("webhook", 1), Run("notification", 1), Run("setup", 1)>>
StopWordQuery == <<Run("the", 1), Run("id", 1)>>
FormulaQuery == <<Run("formula", 1), Run("records", 1)>>

Queries(variant) ==
    IF variant = "full" THEN {WebhookQuery, FormulaQuery}
    ELSE {WebhookQuery, StopWordQuery}

\* the analysis argument as process_query passes it: agent.py passes the
\* QueryAnalysis object, agent_basic.py passes analysis.__dict__
OrchestrationAnalysis(variant, intent) ==
    IF variant = "full" THEN Analysis("QueryAnalysis", intent)
    ELSE Analysis("dict_enum", intent)

\* the analysis arguments of the calls the model makes
Analyses(variant) ==
    {NoAnalysis, Analysis("dict", "formula_help"),
     OrchestrationAnalysis(variant, "webhook_manage")}

\* max_tokens of the managers the model builds
MaxTokensChoices == {2000}

\* max_chunks of the calls the model makes
MaxChunksChoices == {2}

\* bounds of the model
MaxChunks == 4
MaxTime == 1
MaxQueries == 2
MaxSessions == 2
MaxFailures == 1

(***************************************************************************)
(* The store                                                               *)
(***************************************************************************)

RowIds(rows) == {rows[i].id : i \in DOMAIN rows}

\* INSERT OR REPLACE INTO chunks: a row with the same id is deleted and the
\* new row is inserted (at the end of the table)
_save_chunk(rows, chunk, variant) ==
    LET row == [chunk EXCEPT !.embedding =
                    IF variant = "full" THEN chunk.embedding ELSE NoEmbedding]
    IN  Append(SelectSeq(rows, LAMBDA r : r.id # chunk.id), row)

\* the id _update_access_times addresses for a chunk
WriteBackId(chunk, variant) ==
    IF variant = "full" THEN StripTruncated(chunk.id) ELSE chunk.id

\* UpdateRows keeping only the row it addresses (the other rows are dropped
\* from the table): the variant C13's property must reject
RECURSIVE UpdateRows_OnlyAddressed(_, _, _, _)
UpdateRows_OnlyAddressed(rows, id, last_accessed, relevance_score) ==
    IF rows = <<>> THEN <<>>
    ELSE (IF Head(rows).id = id
          THEN <<[Head(rows) EXCEPT !.last_accessed = last_accessed,
                                    !.relevance_score = relevance_score]>>
          ELSE <<>>)
         \o UpdateRows_OnlyAddressed(Tail(rows), id, last_accessed, relevance_score)

\* UPDATE chunks SET last_accessed = ?, relevance_score = ? WHERE id = ?
RECURSIVE UpdateRows(_, _, _, _)
UpdateRows(rows, id, last_accessed, relevance_score) ==
    IF rows = <<>> THEN <<>>
    ELSE <<IF Head(rows).id = id
           THEN [Head(rows) EXCEPT !.last_accessed = last_accessed,
                                   !.relevance_score = relevance_score]
           ELSE Head(rows)>>
         \o UpdateRows(Tail(rows), id, last_accessed, relevance_score)

\* _update_access_times: the UPDATE for every chunk of the list that has a last_accessed
RECURSIVE _update_access_times(_, _, _)
_update_access_times(rows, list, variant) ==
    IF list = <<>> THEN rows
    ELSE LET chunk == Head(list)
             updated ==
                 IF chunk.last_accessed = NoTime THEN rows
                 ELSE UpdateRows(rows, WriteBackId(chunk, variant),
                                 chunk.last_accessed, chunk.relevance_score)
         IN  _update_access_times(updated, Tail(list), variant)

IndexPut(index, id, pos) ==
    [x \in DOMAIN index \cup {id} |-> IF x = id THEN pos ELSE index[x]]

\* the loop of _load_chunks_from_db over the rows from position i on
RECURSIVE LoadRows(_, _, _)
LoadRows(rows, i, mem) ==
    IF i > Len(rows) THEN mem
    ELSE LoadRows(rows, i + 1,
             [chunks |-> Append(mem.chunks, rows[i]),
              index |-> IndexPut(mem.index, rows[i].id, Len(mem.chunks) + 1)])

\* the chunk _process_file builds for a unit
NewChunk(unit, category, variant) ==
    DocumentChunk(chunk_id(unit.content, unit.title, category),
                  unit.content, unit.title, category,
                  IF variant = "full" THEN EncodeLen(unit.content)
                  ELSE _estimate_tokens(unit.content),
                  IF variant = "full" THEN EmbedderEncode(unit.content)
                  ELSE NoEmbedding)

\* the loop of _process_file over the units from position i on; the save of
\* unit failAt raises (failAt = 0: no save fails)
RECURSIVE ProcessUnits(_, _, _, _, _, _)
ProcessUnits(units, i, category, variant, failAt, st) ==
    IF i > Len(units) THEN st
    ELSE IF i = failAt
         THEN [st EXCEPT !.raised = TRUE,
                         !.embeddings = @ + (IF variant = "full" THEN 1 ELSE 0)]
         ELSE LET chunk == NewChunk(units[i], category, variant)
              IN  ProcessUnits(units, i + 1, category, variant, failAt,
                      [st EXCEPT
                          !.chunks = Append(@, chunk),
                          !.index = IndexPut(@, chunk.id, Len(st.chunks) + 1),
                          !.rows = _save_chunk(@, chunk, variant),
                          !.embeddings = @ + (IF variant = "full" THEN 1 ELSE 0)])

\* _process_file: the units of the file, then stats['total_chunks']
_process_file(name, variant, failAt, st) ==
    LET f == DocFile(name)
        done == ProcessUnits(f.units, 1, f.category, variant, failAt, st)
    IN  IF done.raised THEN done
        ELSE [done EXCEPT !.total = Len(done.chunks), !.files = @ \cup {name}]

\* _process_documentation over the files that exist, in doc_files order
RECURSIVE _process_documentation(_, _, _, _)
_process_documentation(names, variant, failAt, st) ==
    IF names = <<>> \/ st.raised THEN st
    ELSE LET n == Len(DocFile(Head(names)).units)
         IN  _process_documentation(Tail(names), variant,
                 IF failAt > n THEN failAt - n ELSE 0,
                 _process_file(Head(names), variant,
                               IF failAt > n THEN 0 ELSE failAt, st))

\* doc_files order of the files of a set
InDocOrder(present) ==
    (IF "api" \in present THEN <<"api">> ELSE <<>>)
        \o (IF "formulas" \in present THEN <<"formulas">> ELSE <<>>)

UnitsIn(names) ==
    IF names = <<>> THEN 0
    ELSE IF Len(names) = 1 THEN Len(DocFile(names[1]).units)
    ELSE Len(DocFile(names[1]).units) + Len(DocFile(names[2]).units)

(***************************************************************************)
(* The operations of a manager                                              *)
(***************************************************************************)

NoOp == [op |-> "none", query |-> <<>>, analysis |-> NoAnalysis, max_chunks |-> 0,
         file |-> "", again |-> FALSE, storeOk |-> TRUE, at |-> 0]

NoResult == [status |-> "none", chunks |-> <<>>, ranked |-> <<>>]

Raised == [status |-> "raised", chunks |-> <<>>, ranked |-> <<>>]

Returned(list, ranked) == [status |-> "returned", chunks |-> list, ranked |-> ranked]

NewStats == [total_chunks |-> 0, embeddings_computed |-> 0,
             context_optimizations |-> 0]

\* ContextManager(max_tokens = m) or ContextManagerBasic(max_tokens = m) on
\* an empty cache directory
\* AirtableAIAgent(): the counters of its metrics and of its MCP client, and
\* what main and the event loop hold of it: where main is (pc), the call in
\* progress and the tasks of its queries; loads, ready and rankings are the
\* history of its context manager, before the metrics at the last call;
\* scored_by is the task of the call in progress whose scoring loop wrote the
\* relevance_score and last_accessed of the chunks last (0: an earlier call)
NewAgent ==
    [pc |-> "new", call |-> "none", calls |-> 0,
     loads |-> 0, ready |-> FALSE, rankings |-> 0, scored_by |-> 0,
     metrics |-> [requests_handled |-> 0, mcp_calls_made |-> 0, errors_handled |-> 0],
     before |-> [requests_handled |-> 0, mcp_calls_made |-> 0, errors_handled |-> 0],
     request_id |-> 0, sent |-> <<>>,
     tasks |-> <<>>, order |-> <<>>,
     last |-> [op |-> "none"]]

Init ==
    /\ impl \in {"full", "basic"}
    /\ max_tokens \in MaxTokensChoices
    /\ embedder = None
    /\ chunks = <<>>
    /\ chunk_index = <<>>
    /\ db = <<>>
    /\ stats = NewStats
    /\ now = 0
    /\ session = 1
    /\ queries = 0
    /\ failures = 0
    /\ ingested = {}
    /\ lastOp = NoOp
    /\ result = NoResult
    /\ fn = [op |-> "none"]
    /\ agent = NewAgent

\* a later process builds a new manager on the same cache directory
NewManager ==
    /\ lastOp.op # "none"
    /\ session < MaxSessions
    /\ session' = session + 1
    /\ embedder' = None
    /\ chunks' = <<>>
    /\ chunk_index' = <<>>
    /\ stats' = NewStats
    /\ ingested' = {}
    /\ lastOp' = NoOp
    /\ result' = NoResult
    /\ UNCHANGED <<impl, max_tokens, db, now, queries, failures, fn, agent>>

\* Time passes between two queries: only get_relevant_context reads the clock.
BetweenQueries == lastOp.op = "get_relevant_context" /\ queries < MaxQueries

\* the clock advances by 30 minutes
Tick ==
    /\ BetweenQueries
    /\ \/ now < MaxTime
       \/ now >= DayTicks - 1 /\ now < DayTicks - 1 + MaxTime
    /\ now' = now + 1
    /\ UNCHANGED <<impl, max_tokens, embedder, chunks, chunk_index, db, stats,
                   session, queries, failures, ingested, lastOp, result, fn, agent>>

\* the clock advances by 30 minutes less than a day
TickDay ==
    /\ BetweenQueries
    /\ now < DayTicks - 1
    /\ now' = now + DayTicks - 1
    /\ UNCHANGED <<impl, max_tokens, embedder, chunks, chunk_index, db, stats,
                   session, queries, failures, ingested, lastOp, result, fn, agent>>

\* the memory of a manager and the store, as the ingestion loops thread them
Memory ==
    [chunks |-> chunks, index |-> chunk_index, rows |-> db,
     embeddings |-> stats.embeddings_computed, total |-> stats.total_chunks,
     files |-> ingested, raised |-> FALSE]

\* the memory and the store initialize() leaves: the rows of the store are
\* loaded, and the documentation files are processed if no chunk was loaded
Initialized(mem, variant, failAt) ==
    LET loaded == LoadRows(mem.rows, 1, [chunks |-> mem.chunks, index |-> mem.index])
        start == [mem EXCEPT !.chunks = loaded.chunks, !.index = loaded.index,
                             !.total = Len(loaded.chunks)]
    IN  IF loaded.chunks = <<>>
        THEN _process_documentation(InDocOrder(FileNames), variant, failAt, start)
        ELSE start

\* initialize(): load the embedding model, then the above; the save of the
\* unit at failAt raises (failAt = 0: no save fails)
initialize_leaving(failAt, done) ==
    /\ lastOp.op # "cleanup"
    /\ failAt <= UnitsIn(InDocOrder(FileNames))
    /\ failAt > 0 => (db = <<>> /\ chunks = <<>>)
    /\ failAt > 0 => failures < MaxFailures
    /\ failures' = failures + (IF done.raised THEN 1 ELSE 0)
    /\ Len(done.chunks) <= MaxChunks
    /\ embedder' = IF impl = "full" THEN "loaded" ELSE embedder
    /\ chunks' = done.chunks
    /\ chunk_index' = done.index
    /\ db' = done.rows
    /\ stats' = [stats EXCEPT !.embeddings_computed = done.embeddings,
                              !.total_chunks = done.total]
    /\ ingested' = done.files
    /\ lastOp' = [NoOp EXCEPT !.op = "initialize", !.at = now]
    /\ result' = IF done.raised THEN Raised ELSE Returned(<<>>, <<>>)
    /\ UNCHANGED <<impl, max_tokens, now, session, queries, fn, agent>>

initialize(failAt) == initialize_leaving(failAt, Initialized(Memory, impl, failAt))

\* _process_file(file, category) called on a file again or on its own, while
\* the corpus is being built (before the first query of the manager)
process_file_leaving(name, failAt, done) ==
    /\ lastOp.op \in {"initialize", "process_file"}
    /\ failAt <= Len(DocFile(name).units)
    /\ failAt > 0 => failures < MaxFailures
    /\ failures' = failures + (IF failAt > 0 THEN 1 ELSE 0)
    /\ Len(chunks) + Len(DocFile(name).units) <= MaxChunks
    /\ IF impl = "full" /\ embedder = None
       THEN \* self.embedder.encode raises on the first unit
            /\ failAt = 0
            /\ UNCHANGED <<chunks, chunk_index, db, stats, ingested>>
            /\ result' = Raised
       ELSE /\ chunks' = done.chunks
            /\ chunk_index' = done.index
            /\ db' = done.rows
            /\ stats' = [stats EXCEPT !.embeddings_computed = done.embeddings,
                                      !.total_chunks = done.total]
            /\ ingested' = done.files
            /\ result' = IF done.raised THEN Raised ELSE Returned(<<>>, <<>>)
    /\ lastOp' = [NoOp EXCEPT !.op = "process_file", !.file = name, !.at = now,
                              !.storeOk = (failAt = 0),
                              !.again = (name \in ingested)]
    /\ UNCHANGED <<impl, max_tokens, embedder, now, session, queries, fn, agent>>

process_file(name, failAt) ==
    process_file_leaving(name, failAt, _process_file(name, impl, failAt, Memory))

(***************************************************************************)
(* get_relevant_context                                                    *)
(***************************************************************************)

\* the similarity term of a chunk's score for a query
Similarity(chunk, query, variant) ==
    IF variant = "full" THEN Dot(EmbedderEncode(query), chunk.embedding)
    ELSE KeywordScore(chunk, _extract_keywords(query))

\* the score the scoring loop computes for a chunk
Score(chunk, query, analysis, clock, variant) ==
    IF variant = "full"
    THEN SemanticScore(chunk, EmbedderEncode(query), analysis, clock)
    ELSE _calculate_keyword_score(chunk, _extract_keywords(query), analysis, clock)

\* the scoring loop from position i on: for each chunk, whether the loop
\* takes it into relevant_chunks and the score it computes for it
RECURSIVE ScoreAll(_, _, _, _, _, _)
ScoreAll(list, i, query, analysis, clock, variant) ==
    IF i > Len(list) THEN <<>>
    ELSE LET score == Score(list[i], query, analysis, clock, variant)
         IN  <<[taken |-> IF variant = "full" THEN list[i].embedding # NoEmbedding
                          ELSE FGreater(score, Zero),
                score |-> score]>>
             \o ScoreAll(list, i + 1, query, analysis, clock, variant)

\* Scored writing the score into the token count of the chunk as well: the
\* variant C14's property must reject
RECURSIVE Scored_IntoTokens(_, _, _, _)
Scored_IntoTokens(list, scores, i, clock) ==
    IF i > Len(list) THEN <<>>
    ELSE <<IF scores[i].taken
           THEN [list[i] EXCEPT !.relevance_score = scores[i].score,
                                !.tokens = scores[i].score.n,
                                !.last_accessed = clock]
           ELSE list[i]>>
         \o Scored_IntoTokens(list, scores, i + 1, clock)

\* Scored leaving the chunks whose score is not positive as they were, in
\* both managers: the variant C23's property must reject
RECURSIVE Scored_Positive(_, _, _, _)
Scored_Positive(list, scores, i, clock) ==
    IF i > Len(list) THEN <<>>
    ELSE <<IF scores[i].taken /\ FGreater(scores[i].score, Zero)
           THEN [list[i] EXCEPT !.relevance_score = scores[i].score,
                                !.last_accessed = clock]
           ELSE list[i]>>
         \o Scored_Positive(list, scores, i + 1, clock)

\* self.chunks after the scoring loop: every chunk taken has its
\* relevance_score and last_accessed set
RECURSIVE Scored(_, _, _, _)
Scored(list, scores, i, clock) ==
    IF i > Len(list) THEN <<>>
    ELSE <<IF scores[i].taken
           THEN [list[i] EXCEPT !.relevance_score = scores[i].score,
                                !.last_accessed = clock]
           ELSE list[i]>>
         \o Scored(list, scores, i + 1, clock)

\* relevant_chunks before the sort: a reference idx to each chunk taken, in
\* corpus order, with its new score and the last_accessed it had before
RECURSIVE Relevant(_, _, _)
Relevant(list, scores, i) ==
    IF i > Len(list) THEN <<>>
    ELSE (IF scores[i].taken
          THEN <<[idx |-> i, relevance_score |-> scores[i].score,
                  accessed_before |-> list[i].last_accessed]>>
          ELSE <<>>)
         \o Relevant(list, scores, i + 1)

\* the scoring loop and the sort of get_relevant_context: relevant_chunks
Rank(list, query, analysis, clock, variant) ==
    SortByScore(Relevant(list, ScoreAll(list, 1, query, analysis, clock, variant), 1))

\* the chunks a list of references stands for
RECURSIVE Deref(_, _)
Deref(refs, list) ==
    IF refs = <<>> THEN <<>> ELSE <<list[Head(refs).idx]>> \o Deref(Tail(refs), list)

\* the returned chunks, each with the position in self.chunks of the chunk
\* it is, or is cut from
RECURSIVE WithRefs(_, _)
WithRefs(list, refs) ==
    IF list = <<>> THEN <<>>
    ELSE <<[chunk |-> Head(list), idx |-> Head(refs).idx]>>
         \o WithRefs(Tail(list), Tail(refs))

\* what a call computes from self.chunks when nothing raises: self.chunks
\* after the scoring loop, relevant_chunks sorted, optimized_chunks, and
\* optimized_chunks with the position of each chunk in self.chunks
Retrieval(list, query, analysis, max_chunks, clock, ceiling, variant) ==
    LET scores == ScoreAll(list, 1, query, analysis, clock, variant)
        scored == Scored(list, scores, 1, clock)
        ranked == SortByScore(Relevant(list, scores, 1))
        selected == Prefix(ranked, max_chunks)
        optimized_chunks ==
            _optimize_for_tokens(Deref(selected, scored), ceiling, variant)
    IN  [scored |-> scored, ranked |-> ranked,
         optimized_chunks |-> optimized_chunks,
         returned |-> WithRefs(optimized_chunks, selected)]

\* whether the scoring loop raises: the first chunk it takes calls
\* _get_category_boost
ScoringRaises(list, analysis, variant) ==
    /\ CategoryBoostRaises(analysis, variant)
    /\ \E i \in DOMAIN list : list[i].embedding # NoEmbedding

\* the call, given what it computes when nothing raises; the store accepts
\* the write of the access times or not (storeOk)
get_relevant_context_computing(query, analysis, max_chunks, storeOk, r) ==
    /\ lastOp.op \notin {"none", "cleanup"}
    /\ queries < MaxQueries
    /\ ~storeOk => failures < MaxFailures
    /\ failures' = failures + (IF storeOk THEN 0 ELSE 1)
    /\ queries' = queries + 1
    /\ lastOp' = [NoOp EXCEPT !.op = "get_relevant_context", !.query = query,
                     !.analysis = analysis, !.max_chunks = max_chunks,
                     !.storeOk = storeOk, !.at = now]
    /\ IF (impl = "full" /\ embedder = None)
          \/ ScoringRaises(chunks, analysis, impl)
       THEN \* self.embedder.encode or _get_category_boost raises
            /\ storeOk
            /\ result' = Raised
            /\ UNCHANGED <<chunks, db, stats>>
       ELSE IF r.optimized_chunks # <<>> /\ ~storeOk
       THEN \* _update_access_times raises, nothing is committed
            /\ chunks' = r.scored
            /\ result' = Raised
            /\ UNCHANGED <<db, stats>>
       ELSE /\ r.optimized_chunks = <<>> => storeOk
            /\ chunks' = r.scored
            /\ db' = _update_access_times(db, r.optimized_chunks, impl)
            /\ stats' = [stats EXCEPT !.context_optimizations = @ + 1]
            /\ result' = Returned(r.returned, r.ranked)
    /\ UNCHANGED <<impl, max_tokens, embedder, chunk_index, ingested, now,
                   session, fn, agent>>

get_relevant_context(query, analysis, max_chunks, storeOk) ==
    get_relevant_context_computing(query, analysis, max_chunks, storeOk,
        Retrieval(chunks, query, analysis, max_chunks, now, max_tokens, impl))

\* SaveAccessed emptying the table before it saves the chunks (a rewrite of
\* the table instead of INSERT OR REPLACE): the variant C12's property must
\* reject
RECURSIVE SaveAccessed_Rewriting(_, _, _, _)
SaveAccessed_Rewriting(rows, list, i, failAt) ==
    LET table == IF i = 1 THEN <<>> ELSE rows
    IN  IF i > Len(list) \/ i = failAt THEN table
        ELSE SaveAccessed_Rewriting(IF list[i].last_accessed # NoTime
                                    THEN _save_chunk(table, list[i], "full")
                                    ELSE table,
                                    list, i + 1, failAt)

\* cleanup(): ContextManager saves every chunk that has a last_accessed,
\* ContextManagerBasic saves nothing; the save of the chunk at failAt raises.
\* cleanup is the last call on a manager (the agent calls it at shutdown).
RECURSIVE SaveAccessed(_, _, _, _)
SaveAccessed(rows, list, i, failAt) ==
    IF i > Len(list) \/ i = failAt THEN rows
    ELSE SaveAccessed(IF list[i].last_accessed # NoTime
                      THEN _save_chunk(rows, list[i], "full") ELSE rows,
                      list, i + 1, failAt)

cleanup(failAt) ==
    /\ lastOp.op \notin {"none", "cleanup"}
    /\ failAt <= Len(chunks)
    /\ failAt > 0 => (impl = "full" /\ chunks[failAt].last_accessed # NoTime)
    /\ failAt > 0 => failures < MaxFailures
    /\ failures' = failures + (IF failAt > 0 THEN 1 ELSE 0)
    /\ db' = IF impl = "full" THEN SaveAccessed(db, chunks, 1, failAt) ELSE db
    /\ lastOp' = [NoOp EXCEPT !.op = "cleanup", !.storeOk = (failAt = 0), !.at = now]
    /\ result' = IF failAt > 0 THEN Raised ELSE Returned(<<>>, <<>>)
    /\ UNCHANGED <<impl, max_tokens, embedder, chunks, chunk_index, stats, ingested,
                   now, session, queries, fn, agent>>

MgrNext ==
    \/ \E failAt \in 0..3 : initialize(failAt)
    \/ \E name \in FileNames, failAt \in 0..2 : process_file(name, failAt)
    \/ \E query \in Queries(impl), analysis \in Analyses(impl), max_chunks \in MaxChunksChoices,
          storeOk \in BOOLEAN :
           get_relevant_context(query, analysis, max_chunks, storeOk)
    \/ \E failAt \in 0..MaxChunks : cleanup(failAt)
    \/ NewManager
    \/ Tick
    \/ TickDay

Next == MgrNext

Spec == Init /\ [][Next]_vars

(***************************************************************************)
(* The pure functions, called on their own                                 *)
(***************************************************************************)

\* bounds of the calls
MaxRuns == 3
MaxListLen == 3

\* the contents _truncate_content is called on: up to MaxRuns runs of words
\* and natural breaks
RunChoices == {Run(p, k) : p \in {"text", "\n\n", ". "}, k \in {1, 3, 8}}

RECURSIVE Texts(_)
Texts(k) ==
    IF k = 0 THEN {<<>>}
    ELSE Texts(k - 1) \cup {Append(t, r) : t \in Texts(k - 1), r \in RunChoices}

LimitChoices == {0, 2, 5, 10, 20}

CallTruncate ==
    /\ fn.op = "none"
    /\ \E content \in Texts(MaxRuns), limit \in LimitChoices :
        /\ fn' = [op |-> "_truncate_content", content |-> content, limit |-> limit,
                  ret |-> _truncate_content(content, limit)]
        /\ UNCHANGED <<mgrVars, agent>>

\* the ranked lists _optimize_for_tokens is called on: up to MaxListLen chunks
\* of plain text, in descending order of score
TokenChoices == {0, 200, 400, 600, 900}

CeilingChoices == {0, 700, 1000, 1002, 2000}

PlainChunk(tokens, position) ==
    [DocumentChunk(<<Run("chunk", position)>>, <<Run("text", tokens)>>,
                   <<Run("title", 1)>>, "api", tokens, NoEmbedding)
        EXCEPT !.relevance_score = FloatOf(ScoreScale - Tenths(position)),
               !.last_accessed = 0]

RECURSIVE RankedLists(_)
RankedLists(k) ==
    IF k = 0 THEN {<<>>}
    ELSE RankedLists(k - 1)
         \cup {Append(l, PlainChunk(t, Len(l) + 1)) :
                  l \in {m \in RankedLists(k - 1) : Len(m) = k - 1},
                  t \in TokenChoices}

CallOptimize ==
    /\ fn.op = "none"
    /\ \E list \in RankedLists(MaxListLen), ceiling \in CeilingChoices,
       variant \in {"full", "basic"} :
        /\ fn' = [op |-> "_optimize_for_tokens", list |-> list, ceiling |-> ceiling,
                  variant |-> variant,
                  ret |-> _optimize_for_tokens(list, ceiling, variant)]
        /\ UNCHANGED <<mgrVars, agent>>

\* the ranking pass of get_relevant_context on a corpus of two chunks, each a
\* unit of the documentation under some category, accessed some time ago
RankClock == DayTicks + HourTicks

AccessChoices ==
    {NoTime} \cup {RankClock - age : age \in {HourTicks - 1, HourTicks,
                                              DayTicks - 1, DayTicks}}

CategoryChoices == {"api", "formulas", "webhooks", "integration"}

RankChunks(variant) ==
    {[NewChunk(DocFile(name).units[1], category, variant)
         EXCEPT !.last_accessed = accessed] :
       name \in FileNames, category \in CategoryChoices, accessed \in AccessChoices}

RankAnalyses ==
    {NoAnalysis, Analysis("dict", "webhook_manage"), Analysis("dict", "formula_help")}

CallRank ==
    /\ fn.op = "none"
    /\ \E variant \in {"full", "basic"} :
      \E a \in RankChunks(variant), b \in RankChunks(variant),
         query \in {WebhookQuery, FormulaQuery}, analysis \in RankAnalyses :
        /\ fn' = [op |-> "rank", list |-> <<a, b>>, query |-> query,
                  analysis |-> analysis, clock |-> RankClock, variant |-> variant,
                  scores |-> ScoreAll(<<a, b>>, 1, query, analysis, RankClock, variant),
                  ret |-> Rank(<<a, b>>, query, analysis, RankClock, variant)]
        /\ UNCHANGED <<mgrVars, agent>>

(***************************************************************************)
(* _smart_chunking: the split of a documentation file into units           *)
(***************************************************************************)

\* not text.strip(): the blank lines are the pieces str.strip() removes
IsBlank(text) == \A i \in DOMAIN text : text[i].piece = "\n\n" \/ text[i].n = 0

\* text.split(sep) for a heading break sep: the texts between its occurrences
RECURSIVE SplitAt(_, _)
SplitAt(text, sep) ==
    IF text = <<>> THEN << <<>> >>
    ELSE LET rest == SplitAt(Tail(text), sep)
         IN  IF Head(text).piece = sep
             THEN [i \in 1..Head(text).n |-> <<>>] \o rest
             ELSE << <<Head(text)>> \o Head(rest) >> \o Tail(rest)

\* section = '## ' + section, put on every section but the first, kept by
\* no section: the variant C20's property must reject
Marked_Never(k, text, marker) == text

\* if i > 0: section = '## ' + section (the marker is a word with its space)
Marked(k, text, marker) == IF k > 1 THEN <<Run(marker, 1)>> \o text ELSE text

\* lines[0] of text.split('\n'), without the pieces of markers: the line
\* ends at the first piece that holds a newline
RECURSIVE FirstLine(_, _)
FirstLine(text, markers) ==
    IF text = <<>> \/ Head(text).piece \in {"\n\n", "\n### ", "\n## ", ".\n"} THEN <<>>
    ELSE (IF Head(text).piece \in markers THEN <<>> ELSE <<Head(text)>>)
         \o FirstLine(Tail(text), markers)

\* if len(section) > 8000
MaxSectionChars == 8000

\* the loop over section.split('\n### ') of a large section
RECURSIVE SubsectionUnits(_, _, _, _)
SubsectionUnits(subsections, j, title_prefix, section_title) ==
    IF j > Len(subsections) THEN <<>>
    ELSE LET subsection == Marked(j, subsections[j], "###")
         IN  (IF IsBlank(subsections[j]) THEN <<>>
              ELSE <<[content |-> subsection,
                      title |-> [prefix |-> title_prefix, section |-> section_title,
                                 subsection |-> <<FirstLine(subsection, {"###"})>>]]>>)
             \o SubsectionUnits(subsections, j + 1, title_prefix, section_title)

\* the loop over content.split('\n## ')
RECURSIVE SectionUnits(_, _, _)
SectionUnits(sections, i, title_prefix) ==
    IF i > Len(sections) THEN <<>>
    ELSE LET section == Marked(i, sections[i], "##")
             section_title == FirstLine(section, {"##", "#"})
         IN  (IF IsBlank(sections[i]) THEN <<>>
              ELSE IF CharLen(section) > MaxSectionChars
                   THEN SubsectionUnits(SplitAt(section, "\n### "), 1, title_prefix,
                                        section_title)
                   ELSE <<[content |-> section,
                           title |-> [prefix |-> title_prefix, section |-> section_title,
                                      subsection |-> <<>>]]>>)
             \o SectionUnits(sections, i + 1, title_prefix)

_smart_chunking(content, title_prefix) ==
    SectionUnits(SplitAt(content, "\n## "), 1, title_prefix)

MaxDocRuns == 5

\* the documents chunked, of runs of words up to the size of a large
\* section, blank lines, and the two heading breaks
RECURSIVE Docs(_)
Docs(k) ==
    IF k = 0 THEN {<<>>}
    ELSE Docs(k - 1)
         \cup {Append(t, r) : t \in Docs(k - 1),
                              r \in {Run("text", 1), Run("text", 1598), Run("\n\n", 1),
                                     Run("\n## ", 1), Run("\n### ", 1)}}

CallChunk ==
    /\ fn.op = "none"
    /\ \E content \in Docs(MaxDocRuns) :
        /\ fn' = [op |-> "_smart_chunking", content |-> content,
                  ret |-> _smart_chunking(content, "api")]
        /\ UNCHANGED <<mgrVars, agent>>

(***************************************************************************)
(* AirtableExpert.plan_operations                                          *)
(***************************************************************************)

\* the values of the enumeration QueryIntent
QueryIntent ==
    {"data_query", "data_create", "data_update", "data_delete", "schema_query",
     "schema_modify", "webhook_manage", "batch_operation", "formula_help",
     "app_guidance", "troubleshooting", "general_info"}

\* an operation naming describe_table as 'get_table_schema', a name the
\* client does not know: the variant C29's property must reject
AirtableOperation_Renamed(tool_name, parameters) ==
    [tool_name |-> IF tool_name = "describe_table" THEN "get_table_schema"
                   ELSE tool_name,
     parameters |-> parameters]

\* an operation, as its tool and the table and record of its parameters
AirtableOperation(tool_name, parameters) ==
    [tool_name |-> tool_name, parameters |-> parameters]

RECURSIVE OnePerTable(_, _)
OnePerTable(tool_name, table_names) ==
    IF table_names = <<>> THEN <<>>
    ELSE <<AirtableOperation(tool_name, <<Head(table_names)>>)>>
         \o OnePerTable(tool_name, Tail(table_names))

\* the _plan_* method of the intent; query is the record of the regular
\* expressions of the planners that match the query
IntentPlan(query, analysis) ==
    LET table_names == analysis.entities.table_names
        record_ids == analysis.entities.record_ids
    IN  CASE analysis.intent = "data_query" ->
               IF table_names # <<>> THEN OnePerTable("list_records", table_names)
               ELSE <<AirtableOperation("list_tables", <<>>)>>
          [] analysis.intent = "data_create" ->
               IF table_names # <<>>
               THEN <<AirtableOperation("create_record", <<table_names[1]>>)>>
               ELSE <<AirtableOperation("list_tables", <<>>)>>
          [] analysis.intent = "data_update" ->
               IF record_ids # <<>> /\ table_names # <<>>
               THEN <<AirtableOperation("update_record", <<table_names[1], record_ids[1]>>)>>
               ELSE IF table_names # <<>>
                    THEN <<AirtableOperation("list_records", <<table_names[1]>>)>>
                    ELSE <<>>
          [] analysis.intent = "data_delete" ->
               IF record_ids # <<>> /\ table_names # <<>>
               THEN <<AirtableOperation("delete_record", <<table_names[1], record_ids[1]>>)>>
               ELSE <<>>
          [] analysis.intent = "schema_query" ->
               IF table_names # <<>> THEN OnePerTable("describe_table", table_names)
               ELSE <<AirtableOperation("get_base_schema", <<>>)>>
          [] analysis.intent = "schema_modify" ->
               IF query.create_table THEN <<AirtableOperation("create_table", <<>>)>>
               ELSE <<>>
          [] analysis.intent = "webhook_manage" ->
               IF query.create_webhook THEN <<AirtableOperation("create_webhook", <<>>)>>
               ELSE <<AirtableOperation("list_webhooks", <<>>)>>
          [] analysis.intent = "batch_operation" ->
               IF table_names = <<>> THEN <<>>
               ELSE IF query.create_or_add
                    THEN <<AirtableOperation("batch_create_records", <<table_names[1]>>)>>
                    ELSE IF query.update_or_modify
                         THEN <<AirtableOperation("batch_update_records", <<table_names[1]>>)>>
                         ELSE <<>>
          [] OTHER -> <<>>

\* plan_operations without its default operation: the variant C19's
\* property must reject
plan_operations_NoDefault(query, analysis) == IntentPlan(query, analysis)

plan_operations(query, analysis) ==
    LET operations == IntentPlan(query, analysis)
    IN  IF operations = <<>> /\ analysis.intent # "general_info"
        THEN <<AirtableOperation("list_tables", <<>>)>>
        ELSE operations

CallPlan ==
    /\ fn.op = "none"
    /\ \E intent \in QueryIntent,
          table_names \in {<<>>, <<"Tasks">>, <<"Tasks", "Projects">>},
          record_ids \in {<<>>, <<"rec1">>},
          query \in [create_table : BOOLEAN, create_webhook : BOOLEAN,
                     create_or_add : BOOLEAN, update_or_modify : BOOLEAN] :
        LET analysis == [intent |-> intent,
                         entities |-> [table_names |-> table_names,
                                       record_ids |-> record_ids]]
        IN  /\ fn' = [op |-> "plan_operations", query |-> query, analysis |-> analysis,
                      ret |-> plan_operations(query, analysis)]
            /\ UNCHANGED <<mgrVars, agent>>

(***************************************************************************)
(* MCPClient.execute_tool                                                  *)
(***************************************************************************)

\* the keys of self.tool_categories
tool_categories ==
    {"list_tables", "list_records", "get_record", "create_record", "update_record",
     "delete_record", "search_records", "list_webhooks", "create_webhook",
     "delete_webhook", "get_webhook_payloads", "refresh_webhook", "list_bases",
     "get_base_schema", "describe_table", "list_field_types", "get_table_views",
     "create_table", "update_table", "delete_table", "create_field", "update_field",
     "delete_field", "batch_create_records", "batch_update_records",
     "batch_delete_records", "batch_upsert_records", "upload_attachment",
     "create_view", "get_view_metadata", "create_base", "list_collaborators",
     "list_shares"}

\* what the POST of a request can end in: a result, a JSON-RPC error, a
\* status other than 200, aiohttp.ClientError, json.JSONDecodeError, and the
\* asyncio.TimeoutError of the session's total timeout
ServerOutcomes ==
    {"result", "jsonrpc_error", "http_error", "client_error", "json_error", "timeout"}

\* _make_request: the result, or the exception it leaves with; it turns
\* every failure but the timeout into MCPError
_make_request(outcome) ==
    CASE outcome = "result" -> [raised |-> None, result |-> "result"]
      [] outcome = "timeout" -> [raised |-> "TimeoutError", result |-> None]
      [] OTHER -> [raised |-> "MCPError", result |-> None]

\* execute_tool: the dict it returns, or the exception it leaves with
execute_tool(tool_name, outcome) ==
    IF tool_name \notin tool_categories
    THEN [status |-> "raised", raised |-> "MCPError"]
    ELSE LET response == _make_request(outcome)
         IN  CASE response.raised = None ->
                    [status |-> "returned",
                     value |-> [success |-> TRUE, tool |-> tool_name,
                                result |-> response.result]]
               [] response.raised = "MCPError" ->
                    [status |-> "returned",
                     value |-> [success |-> FALSE, tool |-> tool_name,
                                error |-> outcome]]
               [] OTHER -> [status |-> "raised", raised |-> response.raised]

CallExecuteTool ==
    /\ fn.op = "none"
    /\ \E tool_name \in tool_categories \cup {"invalid_tool"}, outcome \in ServerOutcomes :
        /\ fn' = [op |-> "execute_tool", tool_name |-> tool_name, outcome |-> outcome,
                  ret |-> execute_tool(tool_name, outcome)]
        /\ UNCHANGED <<mgrVars, agent>>

FnInit == Init /\ impl = "full"

FnNext == CallTruncate \/ CallOptimize \/ CallRank \/ CallChunk \/ CallPlan \/ CallExecuteTool

FnSpec == FnInit /\ [][FnNext]_vars

(***************************************************************************)
(* AirtableAIAgent as main drives it: initialize, then process_query,      *)
(* batch_process and health_check, then shutdown.  The tasks of a call     *)
(* run on one event loop and yield to each other at the POST of a request. *)
(***************************************************************************)

MaxCalls == 2
MaxBatch == 2

\* agent_initialize with main going on to its loop when initialize raised:
\* the variant C11's property must reject
agent_initialize_ThenServing(loaded) ==
    /\ agent.pc = "new"
    /\ agent' = [agent EXCEPT !.loads = @ + 1, !.ready = loaded, !.pc = "serving",
                              !.call = "initialize"]
    /\ UNCHANGED <<mgrVars, fn>>

\* 'await agent.initialize()' of main: context_manager.initialize() loads
\* the corpus or raises, then test_connection() posts a request; main goes
\* on to its loop, or to its finally clause when initialize raised
agent_initialize(loaded) ==
    /\ agent.pc = "new"
    /\ agent' = [agent EXCEPT
                   !.loads = @ + 1,
                   !.ready = loaded,
                   !.request_id = IF loaded THEN @ + 1 ELSE @,
                   !.sent = IF loaded THEN Append(@, agent.request_id + 1) ELSE @,
                   !.pc = IF loaded THEN "serving" ELSE "finally",
                   !.call = "initialize",
                   !.last = [op |-> "initialize",
                             status |-> IF loaded THEN "returned" ELSE "raised"]]
    /\ UNCHANGED <<mgrVars, fn>>

\* 'healthy' when some check is healthy: the variant C18's property must
\* reject
overall_status_Any(checks) ==
    IF \E c \in DOMAIN checks : checks[c].status = "healthy"
    THEN "healthy" ELSE "degraded"

\* 'healthy' if all_healthy else 'degraded'
overall_status(checks) ==
    IF \A c \in DOMAIN checks : checks[c].status = "healthy"
    THEN "healthy" ELSE "degraded"

\* AirtableAIAgent.health_check: a check that raises is caught and taken as
\* status 'error'.  test_connection is healthy when its request returns and
\* when it raises MCPError (list_available_tools falls back to the known
\* tools), and reports any other exception as 'error'; health_check of the
\* context manager is healthy when the count of the rows of the store and,
\* in ContextManager, an encoding succeed
agent_health_check(outcome, mcpRaises, storeOk, embedderOk, cmRaises) ==
    /\ agent.pc = "serving"
    /\ agent.calls < MaxCalls
    /\ LET checks ==
             [mcp_connection |->
                 IF ~mcpRaises /\ _make_request(outcome).raised \in {None, "MCPError"}
                 THEN [status |-> "healthy"] ELSE [status |-> "error"],
              context_manager |->
                 IF ~cmRaises /\ storeOk /\ (impl = "basic" \/ embedderOk)
                 THEN [status |-> "healthy"] ELSE [status |-> "error"]]
       IN  agent' = [agent EXCEPT
                       !.calls = @ + 1,
                       !.call = "health_check",
                       !.request_id = IF mcpRaises THEN @ ELSE @ + 1,
                       !.sent = IF mcpRaises THEN @ ELSE Append(@, agent.request_id + 1),
                       !.last = [op |-> "health_check", status |-> "returned",
                                 storeOk |-> storeOk /\ ~cmRaises,
                                 value |-> [overall_status |-> overall_status(checks),
                                            checks |-> checks]]]
    /\ UNCHANGED <<mgrVars, fn>>

\* analyze_query on the queries the model asks: a general question, a
\* listing of one table, a description of two tables
analyze_query(query) ==
    CASE query = "what is airtable" ->
           [intent |-> "general_info",
            entities |-> [table_names |-> <<>>, record_ids |-> <<>>]]
      [] query = "list records in Tasks" ->
           [intent |-> "data_query",
            entities |-> [table_names |-> <<"Tasks">>, record_ids |-> <<>>]]
      [] OTHER ->
           [intent |-> "schema_query",
            entities |-> [table_names |-> <<"Tasks", "Projects">>, record_ids |-> <<>>]]

\* await agent.process_query(query): the coroutine is created
process_query(query) ==
    /\ agent.pc = "serving"
    /\ agent.calls < MaxCalls
    /\ agent' = [agent EXCEPT !.pc = "calling", !.call = "process_query",
                              !.calls = @ + 1, !.before = agent.metrics,
                              !.scored_by = 0,
                              !.tasks = <<[query |-> query, pc |-> "created",
                                            analysis |-> None, sorted_on |-> 0,
                                            operations |-> <<>>,
                                            mcp_results |-> <<>>, raised |-> None,
                                            result |-> None]>>,
                              !.order = <<>>,
                              !.last = [op |-> "none"]]
    /\ UNCHANGED <<mgrVars, fn>>

\* await agent.batch_process(queries), up to the call of asyncio.gather
batch_process(batch) ==
    /\ agent.pc = "serving"
    /\ agent.calls < MaxCalls
    /\ agent' = [agent EXCEPT !.pc = "calling", !.call = "batch_process",
                              !.calls = @ + 1, !.before = agent.metrics,
                              !.scored_by = 0,
                              !.tasks = [i \in DOMAIN batch |->
                                           [query |-> batch[i], pc |-> "created",
                                            analysis |-> None, sorted_on |-> 0,
                                            operations |-> <<>>,
                                            mcp_results |-> <<>>, raised |-> None,
                                            result |-> None]],
                              !.order = <<>>, !.last = [op |-> "none"]]
    /\ UNCHANGED <<mgrVars, fn>>

\* the handler 'except Exception' without its count of the error: the
\* variant C15's property must reject
Failed_Uncounted(a, i, step) ==
    [a EXCEPT !.tasks[i].pc = "done",
              !.tasks[i].raised = step,
              !.tasks[i].result = [success |-> FALSE, error |-> step,
                                   query |-> a.tasks[i].query],
              !.order = Append(@, i)]

\* the handler 'except Exception' of process_query, entered from step; the
\* result carries the query it answers
Failed(a, i, step) ==
    [a EXCEPT !.metrics.errors_handled = @ + 1,
              !.tasks[i].pc = "done",
              !.tasks[i].raised = step,
              !.tasks[i].result = [success |-> FALSE, error |-> step,
                                   query |-> a.tasks[i].query],
              !.order = Append(@, i)]

\* AirtableExpert.generate_response
generate_response(query, analysis, mcp_results) ==
    LET failed_operations == SelectSeq(mcp_results, LAMBDA r : ~r.success)
    IN  [success |-> Len(failed_operations) = 0,
         intent |-> analysis.intent,
         operations_executed |-> Len(mcp_results),
         failed_operations |-> Len(failed_operations),
         data |-> SelectSeq(mcp_results, LAMBDA r : r.success),
         query |-> query]

\* Proceed building its request with the id the counter had before its
\* increment (the payload built from a value read earlier): the variant
\* C30's property must reject
Proceed_StaleId(a, i, generated) ==
    IF a.tasks[i].operations # <<>>
    THEN [a EXCEPT !.request_id = @ + 1,
                   !.sent = Append(@, a.request_id),
                   !.tasks[i].pc = "awaiting"]
    ELSE IF generated
         THEN [a EXCEPT !.tasks[i].pc = "done",
                        !.tasks[i].result =
                            generate_response(a.tasks[i].query, a.tasks[i].analysis,
                                              a.tasks[i].mcp_results),
                        !.order = Append(@, i)]
         ELSE Failed(a, i, "generate_response")

\* process_query from the top of its loop over the operations: the next
\* operation posts its request and the task waits for the answer; after the
\* last one the response is generated, or generate_response raises
Proceed(a, i, generated) ==
    IF a.tasks[i].operations # <<>>
    THEN [a EXCEPT !.request_id = @ + 1,
                   !.sent = Append(@, a.request_id + 1),
                   !.tasks[i].pc = "awaiting"]
    ELSE IF generated
         THEN [a EXCEPT !.tasks[i].pc = "done",
                        !.tasks[i].result =
                            generate_response(a.tasks[i].query, a.tasks[i].analysis,
                                              a.tasks[i].mcp_results),
                        !.order = Append(@, i)]
         ELSE Failed(a, i, "generate_response")

\* task_start with a suspension between the scoring loop and the sort: the
\* sort reads the scores another task of the batch wrote meanwhile; the
\* variant C25's property must reject
task_start_Suspending(i, raiseAt, generated) ==
    /\ agent.pc = "calling"
    /\ i \in DOMAIN agent.tasks
    /\ agent.tasks[i].pc = "created"
    /\ LET counted == [agent EXCEPT !.metrics.requests_handled = @ + 1]
           analysis == analyze_query(agent.tasks[i].query)
           other == IF Len(agent.tasks) > 1 THEN 3 - i ELSE i
           ranked == [counted EXCEPT !.rankings = @ + 1, !.scored_by = other,
                                     !.tasks[i].analysis = analysis,
                                     !.tasks[i].sorted_on = other]
           planned == [ranked EXCEPT
                         !.tasks[i].operations =
                             plan_operations([create_table |-> FALSE, create_webhook |-> FALSE,
                                              create_or_add |-> FALSE,
                                              update_or_modify |-> FALSE], analysis)]
       IN  agent' = CASE raiseAt = "analyze_query" -> Failed(counted, i, raiseAt)
                      [] raiseAt = "get_relevant_context" -> Failed(ranked, i, raiseAt)
                      [] raiseAt = "plan_operations" -> Failed(ranked, i, raiseAt)
                      [] OTHER -> Proceed(planned, i, generated)
    /\ UNCHANGED <<mgrVars, fn>>

\* a task runs from the top of process_query to its first request: the
\* count of the request, analyze_query, get_relevant_context (a ranking
\* pass), plan_operations; raiseAt is the step that raises, if any.  No
\* await of these calls reaches the event loop (the embedder and sqlite3 are
\* called synchronously), so the scoring loop of get_relevant_context, which
\* writes the scores into the chunks, and its sort and selection, which read
\* them back, run without another task in between.
task_start(i, raiseAt, generated) ==
    /\ agent.pc = "calling"
    /\ i \in DOMAIN agent.tasks
    /\ agent.tasks[i].pc = "created"
    /\ LET counted == [agent EXCEPT !.metrics.requests_handled = @ + 1]
           analysis == analyze_query(agent.tasks[i].query)
           scored == [counted EXCEPT !.rankings = @ + 1, !.scored_by = i,
                                     !.tasks[i].analysis = analysis]
           ranked == [scored EXCEPT !.tasks[i].sorted_on = scored.scored_by]
           planned == [ranked EXCEPT
                         !.tasks[i].operations =
                             plan_operations([create_table |-> FALSE, create_webhook |-> FALSE,
                                              create_or_add |-> FALSE,
                                              update_or_modify |-> FALSE], analysis)]
       IN  agent' = CASE raiseAt = "analyze_query" -> Failed(counted, i, raiseAt)
                      [] raiseAt = "get_relevant_context" -> Failed(ranked, i, raiseAt)
                      [] raiseAt = "plan_operations" -> Failed(ranked, i, raiseAt)
                      [] OTHER -> Proceed(planned, i, generated)
    /\ UNCHANGED <<mgrVars, fn>>

\* the answer to the request of a task arrives: execute_tool returns and the
\* result is appended with success True, or it raises; then the loop goes on
task_response(i, outcome, generated) ==
    /\ agent.pc = "calling"
    /\ i \in DOMAIN agent.tasks
    /\ agent.tasks[i].pc = "awaiting"
    /\ LET operation == Head(agent.tasks[i].operations)
           answer == execute_tool(operation.tool_name, outcome)
           rest == [agent EXCEPT !.tasks[i].operations = Tail(@)]
       IN  agent' =
             CASE answer.status = "returned" ->
                    Proceed([rest EXCEPT
                               !.metrics.mcp_calls_made = @ + 1,
                               !.tasks[i].mcp_results =
                                   Append(@, [operation |-> operation.tool_name,
                                              success |-> TRUE,
                                              result |-> answer.value])],
                            i, generated)
               [] answer.raised = "MCPError" ->
                    Proceed([rest EXCEPT
                               !.metrics.errors_handled = @ + 1,
                               !.tasks[i].mcp_results =
                                   Append(@, [operation |-> operation.tool_name,
                                              success |-> FALSE,
                                              error |-> answer.raised])],
                            i, generated)
               [] OTHER -> Failed(rest, i, "execute_tool")
    /\ UNCHANGED <<mgrVars, fn>>

\* return_results with the results in the order the tasks completed in: the
\* variant C16's property must reject
return_results_AsCompleted ==
    /\ agent.pc = "calling"
    /\ \A i \in DOMAIN agent.tasks : agent.tasks[i].pc = "done"
    /\ agent' = [agent EXCEPT
                   !.pc = "serving",
                   !.last = [op |-> agent.call, status |-> "returned",
                             value |-> IF agent.call = "process_query"
                                       THEN agent.tasks[1].result
                                       ELSE [i \in DOMAIN agent.tasks |->
                                               agent.tasks[agent.order[i]].result]]]
    /\ UNCHANGED <<mgrVars, fn>>

\* every task is done: process_query returns its response to main,
\* batch_process the list asyncio.gather(*tasks, return_exceptions=True)
\* gives it, the results in the order of the tasks
return_results ==
    /\ agent.pc = "calling"
    /\ \A i \in DOMAIN agent.tasks : agent.tasks[i].pc = "done"
    /\ agent' = [agent EXCEPT
                   !.pc = "serving",
                   !.last = [op |-> agent.call, status |-> "returned",
                             value |-> IF agent.call = "process_query"
                                       THEN agent.tasks[1].result
                                       ELSE [i \in DOMAIN agent.tasks |->
                                               agent.tasks[i].result]]]
    /\ UNCHANGED <<mgrVars, fn>>

\* 'quit', or the finally clause of main: await agent.shutdown()
shutdown ==
    /\ agent.pc \in {"serving", "finally"}
    /\ agent' = [agent EXCEPT !.pc = "stopped", !.call = "shutdown"]
    /\ UNCHANGED <<mgrVars, fn>>

AgentNext ==
    \/ \E loaded \in BOOLEAN : agent_initialize(loaded)
    \/ \E outcome \in ServerOutcomes, mcpRaises, storeOk, embedderOk, cmRaises \in BOOLEAN :
          agent_health_check(outcome, mcpRaises, storeOk, embedderOk, cmRaises)
    \/ \E query \in {"what is airtable", "list records in Tasks",
                      "describe Tasks and Projects"} : process_query(query)
    \/ \E n \in 0..MaxBatch :
          \E batch \in [1..n -> {"what is airtable", "list records in Tasks",
                                 "describe Tasks and Projects"}] : batch_process(batch)
    \/ \E i \in 1..MaxBatch, generated \in BOOLEAN,
          raiseAt \in {"none", "analyze_query", "get_relevant_context", "plan_operations"} :
          task_start(i, raiseAt, generated)
    \/ \E i \in 1..MaxBatch, outcome \in {"result", "jsonrpc_error", "timeout"},
          generated \in BOOLEAN :
          task_response(i, outcome, generated)
    \/ return_results
    \/ shutdown

AgentSpec == Init /\ [][AgentNext]_vars

(***************************************************************************)
(* The properties of the specification, C1 to C10                          *)
(***************************************************************************)

RECURSIVE SumTokens(_)
SumTokens(list) ==
    IF list = <<>> THEN 0 ELSE Head(list).tokens + SumTokens(Tail(list))

Optimized == fn.op = "_optimize_for_tokens"

\* C1: for every ranked list of chunks with tokens >= 0 and every ceiling,
\* the tokens of the list _optimize_for_tokens returns, a truncated chunk
\* included, sum to at most 0.7 x ceiling (both managers).
BudgetRespected ==
    Optimized => 10 * SumTokens(fn.ret) <= 7 * fn.ceiling

\* a call that returns a whole chunk and a truncated one, and fills the budget
BudgetFilled ==
    /\ Optimized
    /\ Len(fn.ret) = 2
    /\ IsTruncatedId(fn.ret[2].id)
    /\ 10 * SumTokens(fn.ret) = 7 * fn.ceiling

\* C2: the chunks get_relevant_context returns are in descending order of
\* score, chunks of equal score in corpus order, a truncated chunk (score
\* times 0.8) included.
ReturnedInScoreOrder ==
    (lastOp.op = "get_relevant_context" /\ result.status = "returned") =>
        \A i, j \in DOMAIN result.chunks :
            i < j =>
                LET a == result.chunks[i]
                    b == result.chunks[j]
                IN  \/ FGreater(a.chunk.relevance_score, b.chunk.relevance_score)
                    \/ /\ a.chunk.relevance_score = b.chunk.relevance_score
                       /\ a.idx < b.idx

\* the position of the first chunk of the list that overflows the budget, or 0
FirstOverflow(list, budget) ==
    LET over == {i \in DOMAIN list : SumTokens(SubSeq(list, 1, i)) > budget}
    IN  IF over = {} THEN 0 ELSE CHOOSE i \in over : \A k \in over : i <= k

ThreeOf400 ==
    /\ Optimized
    /\ fn.variant = "full"
    /\ fn.ceiling = 1000
    /\ Len(fn.list) = 3
    /\ \A i \in 1..3 : fn.list[i].tokens = 400

\* C3: in ContextManager._optimize_for_tokens the first chunk that overflows
\* the usable budget is returned truncated exactly when more than 500 tokens
\* of the budget remain, otherwise it is left out, and in both cases the
\* selection ends; three chunks of 400 tokens under ceiling 1000 give the
\* first chunk only.
PartialOnlyAboveMinimum ==
    (Optimized /\ fn.variant = "full") =>
        LET budget == AvailableTokens(fn.ceiling)
            k == FirstOverflow(fn.list, budget)
            remaining == budget - SumTokens(SubSeq(fn.list, 1, k - 1))
        IN  /\ k = 0 => fn.ret = fn.list
            /\ k > 0 =>
                /\ SubSeq(fn.ret, 1, k - 1) = SubSeq(fn.list, 1, k - 1)
                /\ IF remaining > 500
                   THEN /\ Len(fn.ret) = k
                        /\ fn.ret[k].id = TruncatedId(fn.list[k].id)
                        /\ fn.ret[k].tokens = remaining
                   ELSE Len(fn.ret) = k - 1
            /\ ThreeOf400 => (budget = 700 /\ fn.ret = <<fn.list[1]>>)

\* the scenario: 300 tokens remain after the first chunk, the second is left out
ThreeOf400FirstOnly ==
    /\ ThreeOf400
    /\ fn.ret = <<fn.list[1]>>

EndsWithMarker(text) ==
    /\ Len(text) >= Len(TruncationMarker)
    /\ SubSeq(text, Len(text) - Len(TruncationMarker) + 1, Len(text)) = TruncationMarker

\* C4: _truncate_content(content, N) measures at most N tokens; it ends with
\* the truncation marker when content measures more than N tokens and is
\* content itself otherwise.
TruncationFits ==
    fn.op = "_truncate_content" =>
        /\ EncodeLen(fn.ret) <= fn.limit
        /\ EncodeLen(fn.content) > fn.limit => EndsWithMarker(fn.ret)
        /\ EncodeLen(fn.content) <= fn.limit => fn.ret = fn.content

\* whether a chunk of the corpus shares a keyword with the query
SharesKeyword(query) ==
    \E i \in DOMAIN chunks :
        _extract_keywords(query)
            \cap _extract_keywords(chunks[i].content \o chunks[i].title) # {}

\* C5: when no chunk of the corpus has an embedding, get_relevant_context
\* returns a non-empty list if a chunk shares a keyword with the query and
\* an empty list, without raising, if none does, whatever the analysis and
\* the access history.
GracefulDegradation ==
    (/\ lastOp.op = "get_relevant_context"
     /\ lastOp.storeOk
     /\ \A i \in DOMAIN chunks : chunks[i].embedding = NoEmbedding) =>
        /\ result.status = "returned"
        /\ SharesKeyword(lastOp.query) <=> result.chunks # <<>>

\* C6: for the query "webhook notification setup" with intent
\* "webhook_manage", a chunk of category "webhooks" or "integration" scores
\* strictly higher than a chunk of category "formulas" with the same
\* similarity and the same last access.
WebhookCategoriesPreferred ==
    (/\ fn.op = "rank"
     /\ fn.query = WebhookQuery
     /\ fn.analysis = Analysis("dict", "webhook_manage")) =>
        \A i, j \in DOMAIN fn.list :
            (/\ fn.list[i].category \in {"webhooks", "integration"}
             /\ fn.list[j].category = "formulas"
             /\ Similarity(fn.list[i], fn.query, fn.variant)
                    = Similarity(fn.list[j], fn.query, fn.variant)
             /\ fn.list[i].last_accessed = fn.list[j].last_accessed) =>
                FGreater(fn.scores[i].score, fn.scores[j].score)

\* the chunk at position i of the corpus is ranked before the one at j
RankedBefore(ranked, i, j) ==
    \E p, q \in DOMAIN ranked : p < q /\ ranked[p].idx = i /\ ranked[q].idx = j

\* two chunks of the ranked corpus with the same similarity and category, the
\* first accessed 30 minutes ago, the second never
RecentAndNever(i, j) ==
    /\ fn.op = "rank"
    /\ fn.list[i].category = fn.list[j].category
    /\ Similarity(fn.list[i], fn.query, fn.variant)
           = Similarity(fn.list[j], fn.query, fn.variant)
    /\ 30 * (fn.clock - fn.list[i].last_accessed) = 30
    /\ fn.list[j].last_accessed = NoTime

\* the recency term the steps give a chunk: the float 0.2 for a last access
\* less than an hour old, 0.1 for one less than a day old, else 0.0
RecencyStep(chunk) ==
    LET minutes == 30 * (fn.clock - chunk.last_accessed)
    IN  IF chunk.last_accessed = NoTime THEN Zero
        ELSE IF minutes < 60 THEN FloatOf((2 * ScoreScale) \div 10)
        ELSE IF minutes < 24 * 60 THEN FloatOf(ScoreScale \div 10)
        ELSE Zero

\* every score of the ranking is similarity + category boost + that term
ScoresFollowSteps ==
    \A i \in DOMAIN fn.list :
        fn.scores[i].score
            = FAdd(FAdd(Similarity(fn.list[i], fn.query, fn.variant),
                        _get_category_boost(fn.list[i].category, fn.analysis,
                                            fn.variant)),
                   RecencyStep(fn.list[i]))

\* C7, as claimed: the recency term of a score is 0.2 for a last access less
\* than an hour old, 0.1 for one less than a day old, 0 for an older one or
\* none; of two chunks with the same similarity and category, one accessed
\* 30 minutes ago and one never, the first ranks higher and its score minus
\* the other's is exactly 0.2.
RecencyDeltaExact ==
    fn.op = "rank" =>
        /\ ScoresFollowSteps
        /\ \A i, j \in DOMAIN fn.list :
              RecentAndNever(i, j) =>
                  /\ FSub(fn.scores[i].score, fn.scores[j].score)
                         = FloatOf((2 * ScoreScale) \div 10)
                  /\ fn.scores[j].taken => RankedBefore(fn.ret, i, j)

\* C7, amended: the recency term is as claimed, and of the two chunks the
\* first ranks higher and its score is the other's plus 0.2 as float
\* addition rounds it, so that the difference is 0.2 up to that rounding.
RecencyBoostSteps ==
    fn.op = "rank" =>
        /\ ScoresFollowSteps
        /\ \A i, j \in DOMAIN fn.list :
              RecentAndNever(i, j) =>
                  /\ fn.scores[i].score
                         = FAdd(fn.scores[j].score, FloatOf((2 * ScoreScale) \div 10))
                  /\ FGreater(fn.scores[i].score, fn.scores[j].score)
                  /\ FSub(fn.scores[i].score, fn.scores[j].score).n
                         = (2 * ScoreScale) \div 10
                  /\ fn.scores[j].taken => RankedBefore(fn.ret, i, j)

\* both chunks are ranked, the one accessed 30 minutes ago first
RecentRankedFirst ==
    /\ fn.op = "rank"
    /\ \E i, j \in DOMAIN fn.list :
          /\ RecentAndNever(i, j)
          /\ i > j
          /\ RankedBefore(fn.ret, i, j)

NoDuplicateIds(list) ==
    \A i, j \in DOMAIN list : list[i].id = list[j].id => i = j

\* C8: after a file already ingested is ingested again, no id occurs twice
\* in the in-memory list of chunks nor in the store, and (no write having
\* failed) both hold the same set of ids, those of the files ingested.
IdempotentIngestion ==
    (lastOp.op = "process_file" /\ lastOp.again /\ result.status = "returned") =>
        /\ NoDuplicateIds(chunks)
        /\ NoDuplicateIds(db)
        /\ failures = 0 => {chunks[i].id : i \in DOMAIN chunks} = RowIds(db)

\* C9: get_relevant_context returns its list of chunks when the write of
\* the access times to the store fails.
WriteFailureSwallowed ==
    (lastOp.op = "get_relevant_context" /\ ~lastOp.storeOk) =>
        result.status = "returned"

\* C10: get_relevant_context does not raise, whether no analysis is passed
\* or the analysis the agent passes, on an empty corpus or not.
NeverRaises ==
    (/\ lastOp.op = "get_relevant_context"
     /\ lastOp.storeOk
     /\ lastOp.analysis \in {NoAnalysis, OrchestrationAnalysis(impl, lastOp.analysis.intent)}) =>
        result.status = "returned"

(***************************************************************************)
(* The properties of the specification, C11 to C20                         *)
(***************************************************************************)

\* a and b agree on id, content, title, category and tokens
SameFragment(a, b) ==
    /\ a.id = b.id
    /\ a.content = b.content
    /\ a.title = b.title
    /\ a.category = b.category
    /\ a.tokens = b.tokens

\* every row of rows is in after, with the same id, content, title,
\* category and tokens
RowsKept(rows, after) ==
    \A i \in DOMAIN rows : \E j \in DOMAIN after : SameFragment(rows[i], after[j])

\* the step is a call of get_relevant_context or of cleanup
QueryOrCleanupStep ==
    \/ queries' = queries + 1
    \/ lastOp'.op = "cleanup" /\ lastOp.op # "cleanup"

\* the row of the chunk at position i holds the chunk's relevance_score and
\* last_accessed
RowUpToDate(i) ==
    \E r \in DOMAIN db :
        /\ db[r].id = chunks[i].id
        /\ db[r].relevance_score = chunks[i].relevance_score
        /\ db[r].last_accessed = chunks[i].last_accessed

\* C12: whatever point a flush stops at (between two saves of cleanup, or
\* before the commit of a per-query update of the access times), the store
\* afterwards holds every row it held before, with the same id, content,
\* title, category and tokens.
CrashSafeFlush ==
    [][QueryOrCleanupStep => RowsKept(db, db')]_vars

\* a cleanup that stopped between two saves: the row of one accessed chunk
\* is up to date, the row of a later one is stale
PartialFlush ==
    /\ lastOp.op = "cleanup"
    /\ ~lastOp.storeOk
    /\ \E i, j \in DOMAIN chunks :
          /\ i < j
          /\ chunks[i].last_accessed # NoTime
          /\ chunks[j].last_accessed # NoTime
          /\ RowUpToDate(i)
          /\ ~RowUpToDate(j)
          /\ chunks[j].id \in RowIds(db)

ChunkIds(list) == {list[i].id : i \in DOMAIN list}

\* C13: no operation removes an id from the store, and no operation on a
\* manager removes an id from its in-memory list of chunks.
NothingDeleted ==
    [][/\ RowIds(db) \subseteq RowIds(db')
       /\ (session' = session) => (ChunkIds(chunks) \subseteq ChunkIds(chunks'))]_vars

\* a file was ingested again, a query wrote access times back, and the
\* store holds the ids of all the units of the documentation
StoreKeepsEveryId ==
    /\ lastOp.op = "get_relevant_context"
    /\ result.status = "returned"
    /\ result.chunks # <<>>
    /\ Len(chunks) > Len(db)
    /\ Len(db) = UnitsIn(InDocOrder(FileNames))

\* C14: a call of get_relevant_context (scoring, budget optimization,
\* write-back of the access times) or of cleanup leaves the id, content,
\* title, category, tokens and embedding of every chunk of the in-memory
\* list and of every row of the store as they were: it changes
\* relevance_score and last_accessed only.
OnlyScoreAndAccessChange ==
    [][QueryOrCleanupStep =>
          /\ Len(chunks') = Len(chunks)
          /\ \A i \in DOMAIN chunks :
                /\ SameFragment(chunks[i], chunks'[i])
                /\ chunks'[i].embedding = chunks[i].embedding
          /\ \A i \in DOMAIN db : \E j \in DOMAIN db' :
                /\ SameFragment(db[i], db'[j])
                /\ db'[j].embedding = db[i].embedding]_vars

\* a query returned a truncated copy of a chunk: the chunk itself has its
\* new score and its access time, and the content and tokens it had
TruncatedCopyLeavesOriginal ==
    /\ lastOp.op = "get_relevant_context"
    /\ result.status = "returned"
    /\ \E k \in DOMAIN result.chunks :
          LET copy == result.chunks[k].chunk
              original == chunks[result.chunks[k].idx]
          IN  /\ IsTruncatedId(copy.id)
              /\ copy.tokens < original.tokens
              /\ original.tokens = EncodeLen(original.content)
              /\ original.last_accessed = lastOp.at
              /\ original.relevance_score # Zero

\* the positions of a document where a section starts: 0 and the breaks of
\* sections; Len + 1 ends the last one
Starts(doc, sep, b, e) == {b} \cup {k \in (b + 1)..(e - 1) : doc[k].piece = sep}

\* the first position after s among the starts and the end e
NextStart(starts, s, e) ==
    CHOOSE m \in starts \cup {e} : m > s /\ \A x \in starts \cup {e} : x > s => m <= x

\* the text of doc strictly between the positions s and e
Between(doc, s, e) == SubSeq(doc, s + 1, e - 1)

\* the serialized section or subsection that starts at s and ends before e:
\* its heading marker, when it starts at a break, and its text
Serialized(doc, s, e) ==
    (IF s = 0 THEN <<>>
     ELSE <<Run(IF doc[s].piece = "\n## " THEN "##" ELSE "###", 1)>>)
    \o Between(doc, s, e)

\* the units the document calls for, as [from, to] pairs of positions: the
\* non-blank sections of at most 8000 serialized characters, and the
\* non-blank parts between the subsection breaks of the larger ones
UnitsCalledFor(doc) ==
    LET end == Len(doc) + 1
        tops == Starts(doc, "\n## ", 0, end)
        sections == {[from |-> b, to |-> NextStart(tops, b, end)] : b \in tops}
        filled == {t \in sections : ~IsBlank(Between(doc, t.from, t.to))}
        small == {t \in filled : CharLen(Serialized(doc, t.from, t.to)) <= MaxSectionChars}
        parts(t) ==
            LET subs == Starts(doc, "\n### ", t.from, t.to)
            IN  {p \in {[from |-> s, to |-> NextStart(subs, s, t.to)] : s \in subs} :
                    ~IsBlank(IF p.from = t.from THEN Serialized(doc, p.from, p.to)
                             ELSE Between(doc, p.from, p.to))}
    IN  small \cup UNION {parts(t) : t \in filled \ small}

\* C20: _smart_chunking returns, in the order of the document, exactly one
\* unit for each non-blank section of at most 8000 characters and one for
\* each non-blank subsection of each larger section, each unit being the
\* serialized section or subsection; no unit is blank.
ChunkingExact ==
    fn.op = "_smart_chunking" =>
        LET called == UnitsCalledFor(fn.content)
        IN  /\ Len(fn.ret) = Cardinality(called)
            /\ \A k \in DOMAIN fn.ret :
                 /\ ~IsBlank(fn.ret[k].content)
                 /\ \E u \in called :
                      /\ Cardinality({v \in called : v.from < u.from}) = k - 1
                      /\ fn.ret[k].content = Serialized(fn.content, u.from, u.to)

\* a document whose first section is blank and whose second, larger than
\* 8000 characters with its marker, is returned as its two subsections
BlankDroppedLargeSplit ==
    /\ fn.op = "_smart_chunking"
    /\ Len(fn.content) = 4
    /\ Head(fn.content).piece = "\n## "
    /\ CharLen(Between(fn.content, 1, 5)) = MaxSectionChars
    /\ Len(fn.ret) = 2
    /\ Head(fn.ret[1].content).piece = "##"
    /\ Head(fn.ret[2].content).piece = "###"

\* C19: for an analysis whose intent is not GENERAL_INFO plan_operations
\* returns at least one operation, the single operation list_tables when
\* the planner of the intent plans none; for GENERAL_INFO it returns none.
PlanNeverEmpty ==
    fn.op = "plan_operations" =>
        IF fn.analysis.intent = "general_info" THEN fn.ret = <<>>
        ELSE /\ Len(fn.ret) >= 1
             /\ IntentPlan(fn.query, fn.analysis) = <<>> =>
                    /\ Len(fn.ret) = 1
                    /\ fn.ret[1].tool_name = "list_tables"

\* a deletion without a record id: the planner of the intent plans nothing
\* and the plan is the default list_tables
DeleteWithoutRecordPlansDefault ==
    /\ fn.op = "plan_operations"
    /\ fn.analysis.intent = "data_delete"
    /\ fn.analysis.entities.record_ids = <<>>
    /\ fn.analysis.entities.table_names # <<>>
    /\ Len(fn.ret) = 1
    /\ fn.ret[1].tool_name = "list_tables"

\* C17: a call of execute_tool that fails (JSON-RPC error, failure of the
\* transport, or a tool name that is not known) returns a result with
\* success False and an 'error' field; it does not raise.
ToolFailureIsAValue ==
    (/\ fn.op = "execute_tool"
     /\ fn.tool_name \notin tool_categories \/ fn.outcome # "result") =>
        /\ fn.ret.status = "returned"
        /\ fn.ret.value.success = FALSE
        /\ "error" \in DOMAIN fn.ret.value

\* C11: the context manager of an agent is loaded once at most, and a
\* ranking pass (get_relevant_context) has started only if its load, the
\* one load, was completed.
LoadedOnceBeforeRanking ==
    /\ agent.loads <= 1
    /\ agent.rankings > 0 => (agent.ready /\ agent.loads = 1)

\* two queries were ranked after the one load
RankedAfterLoad ==
    /\ agent.rankings = 2
    /\ agent.loads = 1
    /\ agent.ready

\* the steps of process_query outside its loop over the operations
OutsideLoop == {"analyze_query", "get_relevant_context", "plan_operations",
                "generate_response"}

\* C15: process_query returns; when a step outside its loop over the
\* operations raised, the response has success False and an 'error' field,
\* and the call has added exactly 1 to requests_handled and exactly 1 to
\* errors_handled.
QueryFailureCounted ==
    (agent.pc = "serving" /\ agent.last.op = "process_query") =>
        /\ agent.last.status = "returned"
        /\ agent.tasks[1].raised \in OutsideLoop =>
             /\ agent.last.value.success = FALSE
             /\ "error" \in DOMAIN agent.last.value
             /\ agent.metrics.requests_handled = agent.before.requests_handled + 1
             /\ agent.metrics.errors_handled = agent.before.errors_handled + 1

\* generate_response raised after both operations of a query were executed
FailedAfterOperations ==
    /\ agent.pc = "serving"
    /\ agent.last.op = "process_query"
    /\ agent.tasks[1].raised = "generate_response"
    /\ Len(agent.tasks[1].mcp_results) = 2
    /\ agent.last.value.success = FALSE
    /\ agent.metrics.mcp_calls_made = agent.before.mcp_calls_made + 2

\* C16: batch_process returns one result for each query, the result at
\* position i being that of query i, in whatever order the tasks ran and
\* completed and whichever failed; the call has added the number of the
\* queries to requests_handled.
BatchInOrder ==
    (agent.pc = "serving" /\ agent.last.op = "batch_process") =>
        /\ Len(agent.last.value) = Len(agent.tasks)
        /\ \A i \in DOMAIN agent.tasks :
             agent.last.value[i].query = agent.tasks[i].query
        /\ agent.metrics.requests_handled
             = agent.before.requests_handled + Len(agent.tasks)

\* a batch of two different queries whose second task completed first,
\* one of the two having failed
BatchCompletedOutOfOrder ==
    /\ agent.pc = "serving"
    /\ agent.last.op = "batch_process"
    /\ agent.order = <<2, 1>>
    /\ agent.tasks[1].query # agent.tasks[2].query
    /\ agent.last.value[1].success
    /\ ~agent.last.value[2].success

GreedyPrefix ==
    Optimized =>
        /\ Len(fn.ret) <= Len(fn.list)
        /\ \A k \in DOMAIN fn.ret :
            \/ fn.ret[k] = fn.list[k]
            \/ /\ k = Len(fn.ret)
               /\ fn.ret[k].id = TruncatedId(fn.list[k].id)
               /\ fn.list[k].tokens >
                      AvailableTokens(fn.ceiling) - SumTokens(SubSeq(fn.list, 1, k - 1))

\* a call whose second chunk does not fit and is not truncated, and whose
\* third chunk would have fitted: only the first is returned
LaterFitNotReturned ==
    /\ Optimized
    /\ Len(fn.list) = 3
    /\ Len(fn.ret) = 1
    /\ fn.ret[1] = fn.list[1]
    /\ fn.list[1].tokens + fn.list[3].tokens <= AvailableTokens(fn.ceiling)
    /\ fn.list[3].tokens > 0

\* C22: a truncated chunk that get_relevant_context returns has as tokens
\* the budget that remained (int(max_tokens * 0.7) minus the tokens of the
\* chunks selected before it), as score the product of the original's score
\* and 0.8, and the original's category; it is another object than the
\* original (its own id), and the original in self.chunks keeps its whole
\* content, its tokens and its score.
TruncatedCopyFields ==
    (lastOp.op = "get_relevant_context" /\ result.status = "returned") =>
        \A k \in DOMAIN result.chunks :
            LET copy == result.chunks[k].chunk
                original == chunks[result.chunks[k].idx]
                before == [i \in 1..(k - 1) |-> result.chunks[i].chunk]
            IN  IsTruncatedId(copy.id) =>
                    /\ copy.tokens = AvailableTokens(max_tokens) - SumTokens(before)
                    /\ copy.relevance_score = TimesFourFifths(original.relevance_score)
                    /\ copy.category = original.category
                    /\ copy.id = TruncatedId(original.id)
                    /\ ~IsTruncatedId(original.id)
                    /\ original.tokens = EncodeLen(original.content)
                    /\ ~EndsWithMarker(original.content)
                    /\ original.tokens > copy.tokens

\* a query returned a whole chunk and then the truncated copy of another,
\* whose score is not zero
TruncatedCopyAfterWhole ==
    /\ lastOp.op = "get_relevant_context"
    /\ result.status = "returned"
    /\ Len(result.chunks) = 2
    /\ ~IsTruncatedId(result.chunks[1].chunk.id)
    /\ result.chunks[1].chunk.tokens > 0
    /\ IsTruncatedId(result.chunks[2].chunk.id)
    /\ chunks[result.chunks[2].idx].relevance_score # Zero

TruncatedWriteBackReachesOriginal ==
    (lastOp.op = "get_relevant_context" /\ result.status = "returned") =>
        \A k \in DOMAIN result.chunks :
            IsTruncatedId(result.chunks[k].chunk.id) =>
                \E r \in DOMAIN db :
                    /\ db[r].id = chunks[result.chunks[k].idx].id
                    /\ db[r].last_accessed = lastOp.at

CorpusIndexConsistent ==
    /\ NoDuplicateIds(chunks)
    /\ DOMAIN chunk_index = ChunkIds(chunks)
    /\ \A id \in DOMAIN chunk_index :
          /\ chunk_index[id] \in DOMAIN chunks
          /\ chunks[chunk_index[id]].id = id

\* C27: after a cleanup, no write to the store having failed on the way,
\* the row of every chunk that has been accessed holds the chunk's
\* relevance_score and last_accessed (the list holding each id once), so
\* that loading the store gives the chunks their in-memory values.
FlushedAtCleanup ==
    (lastOp.op = "cleanup" /\ failures = 0 /\ NoDuplicateIds(chunks)) =>
        \A i \in DOMAIN chunks :
            chunks[i].last_accessed # NoTime => RowUpToDate(i)

\* whether the tool call recorded in an entry of mcp_results failed:
\* execute_tool raised MCPError, or returned a result with success False
ToolCallFailed(r) == IF r.success THEN ~r.result.success ELSE TRUE

\* C28: the response process_query generates counts in failed_operations
\* every operation whose tool call failed (the server answered with an
\* error), and has success False when there is one.
FailedOperationReported ==
    \A i \in DOMAIN agent.tasks :
        LET task == agent.tasks[i]
            failed == {k \in DOMAIN task.mcp_results : ToolCallFailed(task.mcp_results[k])}
        IN  (task.pc = "done" /\ task.raised = None) =>
                /\ task.result.failed_operations = Cardinality(failed)
                /\ failed # {} => ~task.result.success

\* C29: every operation plan_operations returns names a tool that is a key
\* of tool_categories, so execute_tool does not raise 'Unknown tool' for it:
\* with a server that answers, it returns.
PlannedToolsKnown ==
    fn.op = "plan_operations" =>
        \A k \in DOMAIN fn.ret :
            /\ fn.ret[k].tool_name \in tool_categories
            /\ execute_tool(fn.ret[k].tool_name, "result").status = "returned"

\* a plan of two operations, one for each table the query names
TwoTablesPlanned ==
    /\ fn.op = "plan_operations"
    /\ Len(fn.ret) = 2
    /\ fn.ret[1].tool_name = "describe_table"
    /\ fn.ret[1].parameters # fn.ret[2].parameters

\* C30: the ids of the requests an MCPClient has built, in the order it
\* built them, strictly increase (so no two are equal), the last being the
\* client's request_id, also while the requests of several tasks of a batch
\* are in flight.
RequestIdsIncrease ==
    /\ \A j, k \in DOMAIN agent.sent : j < k => agent.sent[j] < agent.sent[k]
    /\ agent.sent # <<>> => agent.sent[Len(agent.sent)] = agent.request_id
    /\ agent.sent = <<>> => agent.request_id = 0

\* the requests of the two tasks of a batch are in flight together, after
\* the request of test_connection
TwoRequestsInFlight ==
    /\ agent.call = "batch_process"
    /\ \A i \in DOMAIN agent.tasks : agent.tasks[i].pc = "awaiting"
    /\ Len(agent.tasks) = 2
    /\ Len(agent.sent) >= 3
    /\ agent.sent[Len(agent.sent)] = agent.sent[Len(agent.sent) - 1] + 1

====
